---- MODULE Spec2Model ----
(***************************************************************************)
(* Dispatch-and-control core of the elevator simulator: Building,          *)
(* Elevator, the per-elevator controller loop and add_manual_request.      *)
(* Every thread of the program is a process of the model; a process step   *)
(* is a stretch of code between two points where another thread can see   *)
(* or change the shared Building / Elevator fields (the code takes no      *)
(* lock around any of them).                                               *)
(***************************************************************************)
EXTENDS Integers, Sequences, FiniteSets, TLC

\* ---------------------------------------------------------------- bounds
NumFloors == 3
MaxElevators == 2
Capacity == 1
MaxPersons == 2
MaxCallers == 2
MaxThreads == 2
MaxFleet == 3
MaxCalls == 4
HarnessFloors == 5
MaxRegistered == 1
MaxGroupCalls == 1
MaxVisitors == 1
MaxTime == 8
HarnessCapacity == 2
MaxAssignments == 2
MaxFeedback == 2
max_history == 3
Pause == 13
MaxClock == 26
MaxHandlers == 2
MaxSubscriptions == 2
MaxPublishes == 2
MaxStarts == 2

\* ------------------------------------------------- configuration values
distance_weight == 1
full_penalty == 50
same_direction_bonus == 0 - 10
opposite_direction_penalty == 20
load_factor_weight == 10
idle_bonus == 0
GroupingThreshold == 3

VARIABLES
  strategy,               \* Building.strategy: the injected policy ("none" = no strategy)
  num_elevators,          \* Building.num_elevators
  num_callers,            \* the number of threads that call add_manual_request
  current_floor,          \* Elevator.current_floor, per elevator
  direction,              \* Elevator.direction
  state,                  \* Elevator.state
  passengers,             \* Elevator.passengers (list of Person)
  up_requests,            \* Elevator.up_requests
  down_requests,          \* Elevator.down_requests
  destination_floors,     \* Elevator.destination_floors
  waiting_up,             \* Building.waiting_up[floor]
  waiting_down,           \* Building.waiting_down[floor]
  total_people_generated, \* Building.total_people_generated
  total_people_completed, \* Building.total_people_completed
  completed_journeys,     \* Building.completed_journeys
  elevator_destinations,  \* DestinationDispatchStrategy.elevator_destinations
  cpc,                    \* controller thread: position inside _process_elevator_step
  passengers_leaving,     \* controller local
  passengers_boarding,    \* controller local
  still_waiting,          \* controller locals still_waiting_up / _down
  mpc,                    \* caller thread: position inside add_manual_request
  person,                 \* caller local: the Person it created
  best_elevator,          \* caller local of assign_elevator_to_request
  gen_read,               \* caller: value loaded by `total_people_generated += 1`
  ret,                    \* caller: outcome of its last call
  next_uid,               \* identity of the next Person object to be allocated
  last_assigned,          \* RoundRobinStrategy.last_assigned (0-based index, -1 at first)
  request,                \* arguments of the last direct call of strategy.assign_elevator
  assigned,               \* results of the direct calls of strategy.assign_elevator, in order
  engine_is_running,      \* SimulationEngine.is_running
  traffic_is_running,     \* TrafficManager.is_running
  controller_is_running,  \* ElevatorController.is_running, per elevator
  spc,                    \* position of the thread that calls stop_simulation
  join_timed_out,         \* workers whose join(timeout) expired while they were alive
  tpc,                    \* position of the traffic thread in _generate_traffic
  returns_to_process,     \* process_pending_returns: local list of due indices
  pending_returns,        \* Building.pending_returns (the Persons, in list order)
  active_visitors,        \* Building.active_visitors: pairs <<id, uid of the Person>>
  person_id_counter,      \* TrafficManager.person_generator.person_id_counter
  return_journeys,        \* history: <<uid of the visitor, the return Person created>>
  completed_read,         \* per controller: the value loaded by `total_people_completed += 1`
  current_time,           \* time.time(), in whole seconds
  subject,                \* a Person's arrival_time and boarding_time
  observed_wait,          \* the last value read from subject.wait_time, and when
  strategy_weights,       \* MLBasedStrategy.strategy_weights, in hundredths
  assignment_history,     \* MLBasedStrategy.assignment_history
  feedback,               \* the last call of update_from_feedback and the weights before it
  recent_requests,        \* AdaptiveStrategy.recent_requests
  window_before,          \* recent_requests before the last call of AdaptiveStrategy
  subscribers,            \* EventBus._subscribers[event_type], per event type
  publishing,             \* the publish call in progress: its copy of the handlers
  invoked,                \* handlers invoked by the publish calls, in order
  removed,                \* handlers whose last (un)subscription removed them from a list
  event_history,          \* EventBus._event_history (the event types)
  last_call,              \* the last observed call of an Elevator or controller method
  control_loops           \* per controller: the threads its start() calls created, by position

evars == <<current_floor, direction, state, passengers, up_requests,
           down_requests, destination_floors>>
bvars == <<waiting_up, waiting_down, total_people_generated,
           total_people_completed, completed_journeys>>
clocals == <<cpc, passengers_leaving, passengers_boarding,
             still_waiting>>
mlocals == <<mpc, person, best_elevator, gen_read, ret, next_uid>>
\* state that only direct calls of a strategy touch
svars == <<last_assigned, request, assigned>>
\* the three is_running flags and the thread inside stop_simulation
lvars == <<engine_is_running, traffic_is_running, controller_is_running, spc,
           join_timed_out>>
\* the traffic thread and the visitor bookkeeping of the Building
tvars == <<tpc, returns_to_process, pending_returns, active_visitors,
           person_id_counter, return_journeys>>
\* the register of the unlocked increment in _handle_floor_stop
kvars == <<completed_read>>
\* a Person observed against the clock
pvars == <<current_time, subject, observed_wait>>
\* state of the objects exercised on their own, outside a running engine
\* MLBasedStrategy
mlvars == <<strategy_weights, assignment_history, feedback>>
\* AdaptiveStrategy
avars == <<recent_requests, window_before>>
\* EventBus
busvars == <<subscribers, publishing, invoked, removed, event_history>>
ovars == <<last_call>>
rvars == <<control_loops>>
hvars == <<pvars, mlvars, avars, busvars, ovars, rvars>>
xvars == <<svars, lvars, tvars, kvars, hvars>>
vars == <<strategy, num_elevators, num_callers, evars, bvars, elevator_destinations,
          clocals, mlocals, xvars>>

\* ------------------------------------------------------------ the types
Floors == 1..NumFloors
Elevators == 1..num_elevators
Callers == 1..num_callers
ArgFloors == 0..(NumFloors + 1)
StrategyTypes == {"default", "scan", "round_robin", "look",
                  "destination_dispatch", "ml", "adaptive"}
\* the policies the model injects into Building ("none": Building(strategy=None))
Injected == {"none", "default", "destination_dispatch"}
NoPerson == [uid |-> 0, id |-> 0, current_floor |-> 0, destination_floor |-> 0,
             visit_duration |-> 0, is_leaving |-> FALSE]
None == 0
\* a local that holds no value (no frame, or not yet assigned)
Unset == 0 - 1

\* Person.direction
PersonDirection(p) ==
  IF p.destination_floor > p.current_floor THEN "UP"
  ELSE IF p.destination_floor < p.current_floor THEN "DOWN"
  ELSE "IDLE"

\* ------------------------------------------------------ list operations
RECURSIVE RemoveFirst(_, _)
RemoveFirst(s, x) ==
  IF s = <<>> THEN <<>>
  ELSE IF Head(s) = x THEN Tail(s)
  ELSE <<Head(s)>> \o RemoveFirst(Tail(s), x)

Range(s) == {s[i] : i \in 1..Len(s)}

RECURSIVE RemoveAll(_, _)
RemoveAll(s, xs) ==
  IF xs = <<>> THEN s ELSE RemoveAll(RemoveFirst(s, Head(xs)), Tail(xs))

Abs(n) == IF n < 0 THEN 0 - n ELSE n

\* min(candidates, key=score) over indices: the first minimal element
FirstMin(S, score) ==
  CHOOSE i \in S : \A j \in S : score[i] < score[j] \/ (score[i] = score[j] /\ i <= j)

\* --------------------------------------------------------------- Elevator
\* faulty variant of is_full: full only above capacity
is_full_offbyone(n) == n > Capacity

\* Elevator.is_full, on the length of the passenger list
is_full(n) == n >= Capacity

\* Elevator.has_requests_in_direction
has_requests_in_direction(e, d, cur) ==
  IF d = "UP" THEN \E f \in up_requests[e] \cup destination_floors[e] : f > cur
  ELSE IF d = "DOWN" THEN \E f \in down_requests[e] \cup destination_floors[e] : f < cur
  ELSE FALSE

\* Elevator.update_direction: the direction it leaves in self.direction
update_direction(e) ==
  LET cur == current_floor[e]
      d == direction[e]
  IN IF has_requests_in_direction(e, d, cur) THEN d
     ELSE IF d = "UP"
       THEN (IF has_requests_in_direction(e, "DOWN", cur) THEN "DOWN" ELSE "IDLE")
     ELSE IF d = "DOWN"
       THEN (IF has_requests_in_direction(e, "UP", cur) THEN "UP" ELSE "IDLE")
     ELSE IF has_requests_in_direction(e, "UP", cur) THEN "UP"
     ELSE IF has_requests_in_direction(e, "DOWN", cur) THEN "DOWN"
     ELSE d

Nearest(S, cur) == {f \in S : \A g \in S : Abs(f - cur) <= Abs(g - cur)}

\* faulty variant of get_next_stop: the directional branches take the
\* farthest candidate instead of the next one
get_next_stop_farthest(e, d) ==
  LET cur == current_floor[e]
  IN IF d = "UP" THEN
       LET c == {f \in destination_floors[e] \cup up_requests[e] : f > cur}
       IN IF c # {} THEN {CHOOSE f \in c : \A g \in c : f >= g} ELSE {}
     ELSE IF d = "DOWN" THEN
       LET c == {f \in destination_floors[e] \cup down_requests[e] : f < cur}
       IN IF c # {} THEN {CHOOSE f \in c : \A g \in c : f <= g} ELSE {}
     ELSE
       LET c == destination_floors[e] \ {cur}
           r == (up_requests[e] \cup down_requests[e]) \ {cur}
       IN IF c # {} THEN Nearest(c, cur)
          ELSE IF r # {} THEN Nearest(r, cur)
          ELSE {}

\* faulty variant of get_next_stop: the Up branch forgets `f > current_floor`
get_next_stop_unfiltered(e, d) ==
  LET cur == current_floor[e]
  IN IF d = "UP" THEN
       LET c == (destination_floors[e] \cup up_requests[e]) \ {cur}
       IN IF c # {} THEN {CHOOSE f \in c : \A g \in c : f <= g} ELSE {}
     ELSE IF d = "DOWN" THEN
       LET c == {f \in destination_floors[e] \cup down_requests[e] : f < cur}
       IN IF c # {} THEN {CHOOSE f \in c : \A g \in c : f >= g} ELSE {}
     ELSE
       LET c == destination_floors[e] \ {cur}
           r == (up_requests[e] \cup down_requests[e]) \ {cur}
       IN IF c # {} THEN Nearest(c, cur)
          ELSE IF r # {} THEN Nearest(r, cur)
          ELSE {}

\* Elevator.get_next_stop with self.direction = d: the floors it can return
\* ({} stands for None; two floors only when min() meets a tie, which the
\* iteration order of the sets decides)
get_next_stop(e, d) ==
  LET cur == current_floor[e]
  IN IF d = "UP" THEN
       LET c == {f \in destination_floors[e] \cup up_requests[e] : f > cur}
       IN IF c # {} THEN {CHOOSE f \in c : \A g \in c : f <= g} ELSE {}
     ELSE IF d = "DOWN" THEN
       LET c == {f \in destination_floors[e] \cup down_requests[e] : f < cur}
       IN IF c # {} THEN {CHOOSE f \in c : \A g \in c : f >= g} ELSE {}
     ELSE
       LET c == destination_floors[e] \ {cur}
           r == (up_requests[e] \cup down_requests[e]) \ {cur}
       IN IF c # {} THEN Nearest(c, cur)
          ELSE IF r # {} THEN Nearest(r, cur)
          ELSE {}

\* the boarding loop of Elevator.handle_floor_stop (with board_passenger)
\* faulty variant: the loop takes the waiting people from the end of the list
RECURSIVE BoardLoop_newest_first(_, _, _, _)
BoardLoop_newest_first(w, pass, d, brd) ==
  IF w = <<>> THEN [passengers |-> pass, direction |-> d, boarding |-> brd]
  ELSE LET p == w[Len(w)]
           can_board == ~is_full(Len(pass)) /\ (PersonDirection(p) = d \/ d = "IDLE")
       IN IF can_board
          THEN BoardLoop_newest_first(SubSeq(w, 1, Len(w) - 1), Append(pass, p),
                                      IF d = "IDLE" THEN PersonDirection(p) ELSE d,
                                      Append(brd, p))
          ELSE BoardLoop_newest_first(SubSeq(w, 1, Len(w) - 1), pass, d, brd)

RECURSIVE BoardLoop(_, _, _, _)
BoardLoop(w, pass, d, brd) ==
  IF w = <<>> THEN [passengers |-> pass, direction |-> d, boarding |-> brd]
  ELSE LET p == Head(w)
           can_board == ~is_full(Len(pass)) /\ (PersonDirection(p) = d \/ d = "IDLE")
       IN IF can_board /\ ~is_full(Len(pass))
          THEN BoardLoop(Tail(w), Append(pass, p),
                         IF d = "IDLE" THEN PersonDirection(p) ELSE d,
                         Append(brd, p))
          ELSE BoardLoop(Tail(w), pass, d, brd)

\* ------------------------------------------------------------- strategies
\* only DestinationDispatchStrategy.assign_elevator has the destination_floor
\* parameter that Building.find_best_elevator passes by keyword
AcceptsDestination(s) == s = "destination_dispatch"

\* Building.calculate_elevator_score, times Capacity (to stay in the integers)
calculate_elevator_score(e, floor, d) ==
  LET n == Len(passengers[e])
      base == Abs(current_floor[e] - floor) * distance_weight * Capacity
      bonus == IF state[e] = "IDLE" THEN idle_bonus
               ELSE IF direction[e] = d /\ 10 * n < 7 * Capacity THEN same_direction_bonus
               ELSE IF direction[e] \notin {"IDLE", d} THEN opposite_direction_penalty
               ELSE 0
  IN IF is_full(n) THEN full_penalty * Capacity
     ELSE base + bonus * Capacity + n * load_factor_weight

Distance(e, floor) == Abs(current_floor[e] - floor)

\* DestinationDispatchStrategy._assign_nearest
AssignNearest(avail, floor) ==
  LET available == {e \in avail : ~is_full(Len(passengers[e]))}
      idle == {e \in available : state[e] = "IDLE"}
  IN IF available = {} THEN None
     ELSE IF idle # {} THEN FirstMin(idle, [e \in idle |-> Distance(e, floor)])
     ELSE FirstMin(available, [e \in available |-> Distance(e, floor)])

\* DestinationDispatchStrategy._find_grouped_elevator
FindGroupedElevator(avail, dest, d) ==
  LET ok == {e \in avail :
               /\ ~is_full(Len(passengers[e]))
               /\ \E x \in Range(elevator_destinations[e]) : Abs(x - dest) <= GroupingThreshold
               /\ (direction[e] = d \/ state[e] = "IDLE")}
  IN IF ok = {} THEN None ELSE CHOOSE e \in ok : \A j \in ok : e <= j

\* faulty variant: the grouping step is skipped
DestinationDispatchAssign_nearest_only(avail, floor, d, dest) ==
  AssignNearest(avail, floor)

\* DestinationDispatchStrategy.assign_elevator
DestinationDispatchAssign(avail, floor, d, dest) ==
  LET g == FindGroupedElevator(avail, dest, d)
  IN IF g # None THEN g ELSE AssignNearest(avail, floor)

\* Building.find_best_elevator when the strategy call returns
find_best_elevator(floor, d, dest) ==
  LET available_elevators == {e \in Elevators : state[e] # "MAINTENANCE"}
  IN IF available_elevators = {} THEN None
     ELSE IF strategy = "none"
       THEN FirstMin(available_elevators,
                     [e \in available_elevators |-> calculate_elevator_score(e, floor, d)])
     ELSE DestinationDispatchAssign(available_elevators, floor, d, dest)

\* faulty variant: the scan never finds the call
AlreadyAssigned_never(floor, d) == FALSE

\* the scan at the head of Building.assign_elevator_to_request
AlreadyAssigned(floor, d) ==
  \E e \in Elevators : \/ d = "UP" /\ floor \in up_requests[e]
                       \/ d = "DOWN" /\ floor \in down_requests[e]

\* ---------------------------------------------------------------- Init
\* the arguments of a strategy call when none has been made
NoRequest == [floor |-> 0, direction |-> "IDLE", destination |-> 0]

\* Elevator.__init__ for every elevator, and the strategy's empty bookkeeping
NewElevators ==
  /\ current_floor = [e \in Elevators |-> 1]
  /\ direction = [e \in Elevators |-> "IDLE"]
  /\ state = [e \in Elevators |-> "IDLE"]
  /\ passengers = [e \in Elevators |-> <<>>]
  /\ up_requests = [e \in Elevators |-> {}]
  /\ down_requests = [e \in Elevators |-> {}]
  /\ destination_floors = [e \in Elevators |-> {}]
  /\ elevator_destinations = [e \in Elevators |-> <<>>]

\* Building.__init__: empty queues, zero counters
NewBuilding ==
  /\ waiting_up = [f \in Floors |-> <<>>]
  /\ waiting_down = [f \in Floors |-> <<>>]
  /\ total_people_generated = 0
  /\ total_people_completed = 0
  /\ completed_journeys = <<>>
  /\ pending_returns = <<>>
  /\ active_visitors = {}
  /\ return_journeys = <<>>

\* after start_simulation: every thread at the top of its loop with its flag
\* set, locals unset
NewThreads ==
  /\ cpc = [e \in Elevators |-> "step"]
  /\ passengers_leaving = [e \in Elevators |-> <<>>]
  /\ passengers_boarding = [e \in Elevators |-> <<>>]
  /\ still_waiting = [e \in Elevators |-> [up |-> FALSE, down |-> FALSE]]
  /\ mpc = [c \in Callers |-> "idle"]
  /\ person = [c \in Callers |-> NoPerson]
  /\ best_elevator = [c \in Callers |-> Unset]
  /\ gen_read = [c \in Callers |-> 0]
  /\ ret = [c \in Callers |-> "none"]
  /\ next_uid = 1
  /\ engine_is_running = TRUE
  /\ traffic_is_running = TRUE
  /\ controller_is_running = [e \in Elevators |-> TRUE]
  /\ spc = [at |-> "running", i |-> 0]
  /\ join_timed_out = {}
  /\ tpc = "generate"
  /\ returns_to_process = {}
  /\ person_id_counter = 0
  /\ completed_read = [e \in Elevators |-> 0]

\* no strategy has been called directly
NewStrategy ==
  /\ last_assigned = 0 - 1
  /\ request = NoRequest
  /\ assigned = <<>>

\* Optional[float] = None
NoTime == 0 - 1

\* a Person created at clock 0 whose wait time has not been read
NewPerson ==
  /\ current_time = 0
  /\ subject = [arrival_time |-> 0, boarding_time |-> NoTime]
  /\ observed_wait = [at |-> NoTime, value |-> 0]

\* the weights of MLBasedStrategy
WeightNames == {"nearest", "same_direction", "idle_preference", "load_balanced"}

\* no call of update_from_feedback has been made
NoFeedback == [count |-> 0, wait_time |-> 0, assignment_idx |-> 0, outcome |-> "none",
               assignment |-> <<>>, before |-> [k \in WeightNames |-> 0]]

\* MLBasedStrategy.__init__: every weight 1.0
NewMLBased ==
  /\ strategy_weights = [k \in WeightNames |-> 100]
  /\ assignment_history = <<>>
  /\ feedback = NoFeedback

\* AdaptiveStrategy.__init__
NewAdaptive ==
  /\ recent_requests = <<>>
  /\ window_before = <<>>

\* the event types the bus is used with
EventTypes == {"person_boarded", "person_arrived"}

\* no publish call is running
NotPublishing == [event_type |-> "none", handlers |-> <<>>, next |-> 0,
                  barred |-> {}, outcome |-> "none"]

\* EventBus.__init__
NewEventBus ==
  /\ subscribers = [t \in EventTypes |-> <<>>]
  /\ publishing = NotPublishing
  /\ invoked = <<>>
  /\ removed = [t \in EventTypes |-> {}]
  /\ event_history = <<>>

\* no call of an Elevator or controller method has been observed
NoCall == [op |-> "none"]

NothingCalled == last_call = NoCall

\* ElevatorController.__init__: self.thread = None, no start() call yet made
\* on a controller whose restarts are followed
NeverStarted == control_loops = [e \in Elevators |-> <<>>]

\* the objects exercised on their own, before anything was done to them
Unexercised ==
  /\ NewPerson
  /\ NewMLBased
  /\ NewAdaptive
  /\ NewEventBus
  /\ NothingCalled
  /\ NeverStarted

\* the objects that a running engine does not touch, as constructed
Untouched ==
  /\ NewStrategy
  /\ Unexercised

\* Building.__init__, Elevator.__init__ and ElevatorController.__init__, for
\* every building size and strategy within the bounds; no thread has run yet
Constructed ==
  /\ strategy \in Injected
  /\ num_elevators \in 1..MaxElevators
  /\ num_callers \in 1..MaxCallers
  /\ NewElevators
  /\ NewBuilding
  /\ NewThreads
  /\ Untouched

Init ==
  /\ Constructed
  /\ num_elevators + num_callers <= MaxThreads


\* the stale-call test of _should_stop_at_current_floor: past the early
\* return at an internal destination, a call recorded for the current floor
\* with nobody waiting there in its direction is discarded
\* faulty variant: no call is ever taken for stale
stale_call_never(at_destination, recorded, has_people_waiting) == FALSE

stale_call(at_destination, recorded, has_people_waiting) ==
  ~at_destination /\ recorded /\ ~has_people_waiting

\* faulty variant of the stop decision: `if not self.elevator.is_full` is left out
ShouldStop_when_full(e, d, hw) ==
  \/ d = "UP" /\ hw.up
  \/ d = "DOWN" /\ hw.down
  \/ d = "IDLE" /\ (hw.up \/ hw.down)
  \/ d = "UP" /\ ~has_requests_in_direction(e, "UP", current_floor[e]) /\ hw.down
  \/ d = "DOWN" /\ ~has_requests_in_direction(e, "DOWN", current_floor[e]) /\ hw.up

\* ------------------------------------------------- controller (one per elevator)
\* ElevatorController._should_stop_at_current_floor: its answer after the
\* destination test, from the direction d and the two queue tests hw
ShouldStop(e, d, hw) ==
  /\ ~is_full(Len(passengers[e]))
  /\ \/ d = "UP" /\ hw.up
     \/ d = "DOWN" /\ hw.down
     \/ d = "IDLE" /\ (hw.up \/ hw.down)
     \/ d = "UP" /\ ~has_requests_in_direction(e, "UP", current_floor[e]) /\ hw.down
     \/ d = "DOWN" /\ ~has_requests_in_direction(e, "DOWN", current_floor[e]) /\ hw.up

\* _move_towards_floor and _simulate_movement: the floor after one tick of
\* travel from current towards target_floor
\* faulty variant: the elevator is put at the target floor at once
simulate_movement_express(current, target_floor) == target_floor

simulate_movement(current, target_floor) ==
  IF target_floor > current THEN current + 1 ELSE current - 1

\* _process_elevator_step: update_direction, _should_stop_at_current_floor
\* (with its stale-call cleanup) and, when that returns False, the move
\* (_move_towards_floor, _simulate_movement) or the return to Idle
process_elevator_step(e) ==
  LET f == current_floor[e]
      d == update_direction(e)
      at_destination == f \in destination_floors[e]
      hw == [up |-> Len(waiting_up[f]) > 0, down |-> Len(waiting_down[f]) > 0]
      stale_up == stale_call(at_destination, f \in up_requests[e], hw.up)
      stale_down == stale_call(at_destination, f \in down_requests[e], hw.down)
      stops == get_next_stop(e, d)
  IN /\ cpc[e] = "step"
     /\ controller_is_running[e]
     /\ up_requests' = [up_requests EXCEPT ![e] = IF stale_up THEN @ \ {f} ELSE @]
     /\ down_requests' = [down_requests EXCEPT ![e] = IF stale_down THEN @ \ {f} ELSE @]
     /\ IF at_destination \/ ShouldStop(e, d, hw)
        THEN /\ cpc' = [cpc EXCEPT ![e] = "load"]
             /\ direction' = [direction EXCEPT ![e] = d]
             /\ UNCHANGED <<current_floor, state>>
        ELSE /\ cpc' = cpc
             /\ IF stops # {}
                THEN \E next_stop \in stops :
                       /\ direction' = [direction EXCEPT ![e] =
                            IF next_stop > f THEN "UP" ELSE "DOWN"]
                       /\ current_floor' = [current_floor EXCEPT ![e] =
                            simulate_movement(f, next_stop)]
                       /\ state' = [state EXCEPT ![e] = "MOVING"]
                ELSE /\ state' = [state EXCEPT ![e] = "IDLE"]
                     /\ direction' = [direction EXCEPT ![e] = "IDLE"]
                     /\ UNCHANGED current_floor
     /\ UNCHANGED <<strategy, num_elevators, num_callers, passengers, destination_floors, bvars,
                    elevator_destinations, passengers_leaving, passengers_boarding,
                    still_waiting, mlocals>>

\* one pass of _run_control_loop through _process_elevator_step
CtlStep(e) ==
  /\ process_elevator_step(e)
  /\ UNCHANGED xvars

\* _run_control_loop: `while self.is_running` is false, the thread ends
CtlExit(e) ==
  /\ cpc[e] = "step"
  /\ ~controller_is_running[e]
  /\ cpc' = [cpc EXCEPT ![e] = "done"]
  /\ UNCHANGED <<strategy, num_elevators, num_callers, xvars, evars, bvars,
                 elevator_destinations, passengers_leaving, passengers_boarding,
                 still_waiting, mlocals>>

\* faulty variant: the floor reached stays in the destination set
unboard_destinations_keep(destinations, floor) == destinations

\* Elevator.unboard_passengers: `self.destination_floors.remove(floor)`
unboard_destinations(destinations, floor) == destinations \ {floor}

\* _handle_floor_stop: the queue reads and Elevator.handle_floor_stop
CtlLoad(e) ==
  LET f == current_floor[e]
      d == direction[e]
      waiting_people == IF d = "UP" THEN waiting_up[f]
                        ELSE IF d = "DOWN" THEN waiting_down[f]
                        ELSE waiting_up[f] \o waiting_down[f]
      leaving == SelectSeq(passengers[e], LAMBDA p : p.destination_floor = f)
      staying == SelectSeq(passengers[e], LAMBDA p : p.destination_floor # f)
      b == BoardLoop(waiting_people, staying, d, <<>>)
  IN /\ cpc[e] = "load"
     /\ state' = [state EXCEPT ![e] = "LOADING"]
     /\ passengers' = [passengers EXCEPT ![e] = b.passengers]
     /\ direction' = [direction EXCEPT ![e] = b.direction]
     /\ destination_floors' = [destination_floors EXCEPT ![e] =
          unboard_destinations(@, f) \cup {p.destination_floor : p \in Range(b.boarding)}]
     /\ passengers_leaving' = [passengers_leaving EXCEPT ![e] = leaving]
     /\ passengers_boarding' = [passengers_boarding EXCEPT ![e] = b.boarding]
     /\ cpc' = [cpc EXCEPT ![e] = "remove"]
     /\ UNCHANGED <<strategy, num_elevators, num_callers, xvars, current_floor, up_requests, down_requests,
                    bvars, elevator_destinations, still_waiting, mlocals>>

\* DestinationDispatchStrategy.register_destination, for a list of boarders
RECURSIVE RegisterAll(_, _)
RegisterAll(dests, brd) ==
  IF brd = <<>> THEN dests
  ELSE RegisterAll(IF Head(brd).destination_floor \in Range(dests) THEN dests
                   ELSE Append(dests, Head(brd).destination_floor),
                   Tail(brd))

\* faulty variant: arrivals are never cleared
ClearAll_never(dests, lv) == dests

\* DestinationDispatchStrategy.clear_destination, for a list of leavers
RECURSIVE ClearAll(_, _)
ClearAll(dests, lv) ==
  IF lv = <<>> THEN dests
  ELSE ClearAll(RemoveFirst(dests, Head(lv).destination_floor), Tail(lv))

\* _handle_floor_stop: Building.remove_waiting_people for every boarder, and
\* the bookkeeping calls on a DestinationDispatchStrategy
CtlRemove(e) ==
  LET f == current_floor[e]
      brd == passengers_boarding[e]
      ups == SelectSeq(brd, LAMBDA p : PersonDirection(p) = "UP")
      downs == SelectSeq(brd, LAMBDA p : PersonDirection(p) # "UP")
  IN /\ cpc[e] = "remove"
     /\ waiting_up' = [waiting_up EXCEPT ![f] = RemoveAll(@, ups)]
     /\ waiting_down' = [waiting_down EXCEPT ![f] = RemoveAll(@, downs)]
     /\ elevator_destinations' =
          IF strategy = "destination_dispatch"
          THEN [elevator_destinations EXCEPT ![e] =
                  ClearAll(RegisterAll(@, brd), passengers_leaving[e])]
          ELSE elevator_destinations
     /\ cpc' = [cpc EXCEPT ![e] = "recheck"]
     /\ UNCHANGED <<strategy, num_elevators, num_callers, xvars, evars, total_people_generated,
                    total_people_completed, completed_journeys,
                    passengers_leaving, passengers_boarding, still_waiting, mlocals>>

\* _handle_floor_stop: the two queue reads after boarding
CtlRecheck(e) ==
  LET f == current_floor[e]
  IN /\ cpc[e] = "recheck"
     /\ still_waiting' = [still_waiting EXCEPT ![e] =
          [up |-> Len(waiting_up[f]) # 0, down |-> Len(waiting_down[f]) # 0]]
     /\ cpc' = [cpc EXCEPT ![e] = "clear"]
     /\ UNCHANGED <<strategy, num_elevators, num_callers, xvars, evars, bvars, elevator_destinations,
                    passengers_leaving, passengers_boarding, mlocals>>

\* _handle_floor_stop after the statistics loop: the loading delay and
\* `self.elevator.state = ElevatorState.MOVING`; the locals go out of scope
EndFloorStop(e) ==
  /\ state' = [state EXCEPT ![e] = "MOVING"]
  /\ passengers_leaving' = [passengers_leaving EXCEPT ![e] = <<>>]
  /\ passengers_boarding' = [passengers_boarding EXCEPT ![e] = <<>>]
  /\ still_waiting' = [still_waiting EXCEPT ![e] = [up |-> FALSE, down |-> FALSE]]
  /\ cpc' = [cpc EXCEPT ![e] = "step"]

\* _handle_floor_stop: the call removal, then either the end of the stop (no
\* one left) or the load of `total_people_completed += 1` for the first leaver
CtlFinish(e) ==
  LET f == current_floor[e]
      sw == still_waiting[e]
  IN /\ cpc[e] = "clear"
     /\ up_requests' = [up_requests EXCEPT ![e] = IF ~sw.up THEN @ \ {f} ELSE @]
     /\ down_requests' = [down_requests EXCEPT ![e] = IF ~sw.down THEN @ \ {f} ELSE @]
     /\ IF passengers_leaving[e] = <<>>
        THEN /\ EndFloorStop(e)
             /\ UNCHANGED completed_read
        ELSE /\ completed_read' = [completed_read EXCEPT ![e] = total_people_completed]
             /\ cpc' = [cpc EXCEPT ![e] = "count"]
             /\ UNCHANGED <<state, passengers_leaving, passengers_boarding, still_waiting>>
     /\ UNCHANGED <<strategy, num_elevators, num_callers, svars, lvars, tvars, hvars,
                    current_floor, direction, passengers, destination_floors, bvars,
                    elevator_destinations, mlocals>>

\* _handle_floor_stop, one iteration of `for person in passengers_leaving`:
\* the store of `total_people_completed += 1` and the append to
\* completed_journeys; then the load for the next leaver, or the end of the stop
CtlCount(e) ==
  /\ cpc[e] = "count"
  /\ total_people_completed' = completed_read[e] + 1
  /\ completed_journeys' = Append(completed_journeys, Head(passengers_leaving[e]))
  /\ IF Len(passengers_leaving[e]) = 1
     THEN /\ EndFloorStop(e)
          /\ completed_read' = [completed_read EXCEPT ![e] = 0]
     ELSE /\ passengers_leaving' = [passengers_leaving EXCEPT ![e] = Tail(@)]
          /\ completed_read' = [completed_read EXCEPT ![e] = total_people_completed']
          /\ UNCHANGED <<state, cpc, passengers_boarding, still_waiting>>
  /\ UNCHANGED <<strategy, num_elevators, num_callers, svars, lvars, tvars, hvars,
                 current_floor, direction, passengers, up_requests, down_requests,
                 destination_floors, waiting_up, waiting_down, total_people_generated,
                 elevator_destinations, mlocals>>

Controller(e) ==
  \/ CtlStep(e)
  \/ CtlLoad(e)
  \/ CtlRemove(e)
  \/ CtlRecheck(e)
  \/ CtlFinish(e)
  \/ CtlCount(e)

\* --------------------------------------------- callers of add_manual_request
\* faulty variant of the guards: the from_floor == to_floor test is missing
ValidRequest_no_equal_check(from_floor, to_floor) ==
  from_floor \in 1..NumFloors /\ to_floor \in 1..NumFloors

\* the two guards of SimulationEngine.add_manual_request
ValidRequest(from_floor, to_floor) ==
  /\ from_floor \in 1..NumFloors /\ to_floor \in 1..NumFloors
  /\ from_floor # to_floor

\* add_manual_request: the guards, Person(...), and Building.add_person_request
\* up to the scan of assign_elevator_to_request
AddManualRequest(c, from_floor, to_floor) ==
  LET p == [uid |-> next_uid, id |-> total_people_generated + 1,
            current_floor |-> from_floor, destination_floor |-> to_floor,
            visit_duration |-> 0, is_leaving |-> FALSE]
      d == PersonDirection(p)
  IN /\ mpc[c] = "idle"
     /\ IF ~ValidRequest(from_floor, to_floor)
        THEN /\ ret' = [ret EXCEPT ![c] = "false"]
             /\ UNCHANGED <<waiting_up, waiting_down, mpc, person, best_elevator, next_uid>>
        ELSE /\ next_uid <= MaxPersons
             /\ next_uid' = next_uid + 1
             /\ person' = [person EXCEPT ![c] = p]
             /\ best_elevator' = [best_elevator EXCEPT ![c] = Unset]
             /\ ret' = [ret EXCEPT ![c] = "none"]
             /\ waiting_up' = IF d = "UP"
                  THEN [waiting_up EXCEPT ![from_floor] = Append(@, p)] ELSE waiting_up
             /\ waiting_down' = IF d = "DOWN"
                  THEN [waiting_down EXCEPT ![from_floor] = Append(@, p)] ELSE waiting_down
             /\ mpc' = [mpc EXCEPT ![c] =
                  IF AlreadyAssigned(from_floor, d) THEN "inc" ELSE "find"]
     /\ UNCHANGED <<strategy, num_elevators, num_callers, xvars, evars, total_people_generated,
                    total_people_completed, completed_journeys, elevator_destinations,
                    clocals, gen_read>>

\* assign_elevator_to_request after the scan: find_best_elevator and add_request,
\* or the TypeError of the strategy call, which ends add_manual_request
FindBest(c) ==
  LET p == person[c]
      d == PersonDirection(p)
      best == find_best_elevator(p.current_floor, d, p.destination_floor)
  IN /\ mpc[c] = "find"
     /\ IF strategy # "none" /\ ~AcceptsDestination(strategy)
        THEN /\ ret' = [ret EXCEPT ![c] = "TypeError"]
             /\ mpc' = [mpc EXCEPT ![c] = "idle"]
             /\ person' = [person EXCEPT ![c] = NoPerson]
             /\ UNCHANGED <<up_requests, down_requests, best_elevator>>
        ELSE /\ best_elevator' = [best_elevator EXCEPT ![c] = best]
             /\ up_requests' = IF best # None /\ d = "UP"
                  THEN [up_requests EXCEPT ![best] = @ \cup {p.current_floor}]
                  ELSE up_requests
             /\ down_requests' = IF best # None /\ d = "DOWN"
                  THEN [down_requests EXCEPT ![best] = @ \cup {p.current_floor}]
                  ELSE down_requests
             /\ mpc' = [mpc EXCEPT ![c] = "inc"]
             /\ UNCHANGED <<ret, person>>
     /\ UNCHANGED <<strategy, num_elevators, num_callers, xvars, current_floor, direction, state, passengers,
                    destination_floors, bvars, elevator_destinations, clocals,
                    gen_read, next_uid>>

\* `self.building.total_people_generated += 1`: the load
IncRead(c) ==
  /\ mpc[c] = "inc"
  /\ gen_read' = [gen_read EXCEPT ![c] = total_people_generated]
  /\ mpc' = [mpc EXCEPT ![c] = "store"]
  /\ UNCHANGED <<strategy, num_elevators, num_callers, xvars, evars, bvars, elevator_destinations, clocals,
                 person, best_elevator, ret, next_uid>>

\* `self.building.total_people_generated += 1`: the store, and `return True`
IncStore(c) ==
  /\ mpc[c] = "store"
  /\ total_people_generated' = gen_read[c] + 1
  /\ gen_read' = [gen_read EXCEPT ![c] = 0]
  /\ ret' = [ret EXCEPT ![c] = "true"]
  /\ mpc' = [mpc EXCEPT ![c] = "idle"]
  /\ person' = [person EXCEPT ![c] = NoPerson]
  /\ best_elevator' = [best_elevator EXCEPT ![c] = Unset]
  /\ UNCHANGED <<strategy, num_elevators, num_callers, xvars, evars, waiting_up, waiting_down,
                 total_people_completed, completed_journeys, elevator_destinations,
                 clocals, next_uid>>

Next ==
  \/ \E e \in Elevators : CtlStep(e)
  \/ \E e \in Elevators : CtlLoad(e)
  \/ \E e \in Elevators : CtlRemove(e)
  \/ \E e \in Elevators : CtlRecheck(e)
  \/ \E e \in Elevators : CtlFinish(e)
  \/ \E e \in Elevators : CtlCount(e)
  \/ \E c \in Callers : \E from_floor \in ArgFloors, to_floor \in ArgFloors :
       AddManualRequest(c, from_floor, to_floor)
  \/ \E c \in Callers : FindBest(c)
  \/ \E c \in Callers : IncRead(c)
  \/ \E c \in Callers : IncStore(c)

Spec == Init /\ [][Next]_vars

\* ------------------------------------------------------------------------
\* The lobby scenario: every request starts at floor 1 (as the traffic source
\* generates them and as Scenario B submits them), callers and controllers
\* all running at once.
InitLobby ==
  /\ Constructed
  /\ strategy \in {"none", "destination_dispatch"}
  /\ num_elevators = MaxElevators
  /\ num_callers = MaxCallers

LobbyRequest(c) ==
  \E to_floor \in 2..NumFloors : AddManualRequest(c, 1, to_floor)

NextLobby ==
  \/ \E e \in Elevators : CtlStep(e)
  \/ \E e \in Elevators : CtlLoad(e)
  \/ \E e \in Elevators : CtlRemove(e)
  \/ \E e \in Elevators : CtlRecheck(e)
  \/ \E e \in Elevators : CtlFinish(e)
  \/ \E e \in Elevators : CtlCount(e)
  \/ \E c \in Callers : LobbyRequest(c)
  \/ \E c \in Callers : FindBest(c)
  \/ \E c \in Callers : IncRead(c)
  \/ \E c \in Callers : IncStore(c)

SpecLobby == InitLobby /\ [][NextLobby]_vars


\* ------------------------------------------------------------------------
\* A single-elevator building driven by one caller, the threads scheduled
\* fairly: a thread that can take a step eventually takes it.
InitSingle ==
  /\ Constructed
  /\ strategy \in {"none", "destination_dispatch"}
  /\ num_elevators = 1
  /\ num_callers = 1

ControllerRuns(e) == e \in Elevators /\ Controller(e)

CallerReturns(c) == c \in Callers /\ (FindBest(c) \/ IncRead(c) \/ IncStore(c))

SpecSingle ==
  /\ InitSingle
  /\ [][Next]_vars
  /\ \A e \in 1..MaxElevators : WF_vars(ControllerRuns(e))
  /\ \A c \in 1..MaxCallers : WF_vars(CallerReturns(c))

\* ------------------------------------------------------------------------
\* The traffic thread (TrafficManager._generate_traffic) and the thread that
\* calls SimulationEngine.stop_simulation.

\* the strategy call inside assign_elevator_to_request raises TypeError
Raises(p) ==
  /\ ~AlreadyAssigned(p.current_floor, PersonDirection(p))
  /\ strategy # "none"
  /\ ~AcceptsDestination(strategy)

\* Building.add_person_request, the condition of its last statement
SchedulesReturn(p) ==
  /\ ~p.is_leaving
  /\ p.visit_duration > 0
  /\ p.destination_floor # 1

\* Building.add_person_request up to its last statement: the append to the
\* queue and assign_elevator_to_request
AddPersonRequest(p) ==
  LET f == p.current_floor
      d == PersonDirection(p)
      best == IF AlreadyAssigned(f, d) \/ Raises(p) THEN None
              ELSE find_best_elevator(f, d, p.destination_floor)
  IN /\ waiting_up' = IF d = "UP" THEN [waiting_up EXCEPT ![f] = Append(@, p)]
                      ELSE waiting_up
     /\ waiting_down' = IF d = "DOWN" THEN [waiting_down EXCEPT ![f] = Append(@, p)]
                        ELSE waiting_down
     /\ up_requests' = IF best # None /\ d = "UP"
                       THEN [up_requests EXCEPT ![best] = @ \cup {f}] ELSE up_requests
     /\ down_requests' = IF best # None /\ d = "DOWN"
                         THEN [down_requests EXCEPT ![best] = @ \cup {f}] ELSE down_requests

\* PersonGenerator.generate_person: a visitor entering at floor 1
generate_person(destination_floor) ==
  [uid |-> next_uid, id |-> person_id_counter + 1, current_floor |-> 1,
   destination_floor |-> destination_floor, visit_duration |-> 1, is_leaving |-> FALSE]

\* PersonGenerator.create_return_journey on the fresh generator that
\* process_pending_returns constructs (its counter starts at 0)
create_return_journey(original_person, floor) ==
  [uid |-> next_uid, id |-> 0 + 1, current_floor |-> floor,
   destination_floor |-> 1, visit_duration |-> 0, is_leaving |-> TRUE]

\* list.pop(i)
Pop(seq, i) == [k \in 1..(Len(seq) - 1) |-> IF k < i THEN seq[k] ELSE seq[k + 1]]

\* _generate_traffic: `while self.is_running` is false, the thread ends
TrafficExit ==
  /\ tpc = "generate"
  /\ ~traffic_is_running
  /\ tpc' = "done"
  /\ UNCHANGED <<strategy, num_elevators, num_callers, evars, bvars,
                 elevator_destinations, clocals, mlocals, svars, lvars, kvars, hvars,
                 returns_to_process, pending_returns, active_visitors,
                 person_id_counter, return_journeys>>

\* _generate_traffic, first half of an iteration: with some probability
\* generate_person, add_person_request and the increment of generated; a
\* TypeError from the strategy ends the thread
TrafficGenerate ==
  /\ tpc = "generate"
  /\ traffic_is_running
  /\ \/ /\ tpc' = "returns"
        /\ UNCHANGED <<bvars, up_requests, down_requests, pending_returns,
                       active_visitors, person_id_counter, next_uid>>
     \/ /\ person_id_counter < MaxVisitors
        /\ \E destination_floor \in 2..NumFloors :
             LET p == generate_person(destination_floor)
             IN /\ AddPersonRequest(p)
                /\ person_id_counter' = person_id_counter + 1
                /\ next_uid' = next_uid + 1
                /\ IF Raises(p)
                   THEN /\ tpc' = "done"
                        /\ UNCHANGED <<pending_returns, active_visitors,
                                       total_people_generated>>
                   ELSE /\ tpc' = "returns"
                        /\ pending_returns' =
                             IF SchedulesReturn(p) THEN Append(pending_returns, p)
                             ELSE pending_returns
                        /\ active_visitors' =
                             IF SchedulesReturn(p)
                             THEN {v \in active_visitors : v[1] # p.id} \cup {<<p.id, p.uid>>}
                             ELSE active_visitors
                        /\ total_people_generated' = total_people_generated + 1
        /\ UNCHANGED <<total_people_completed, completed_journeys>>
  /\ UNCHANGED <<strategy, num_elevators, num_callers, current_floor, direction, state,
                 passengers, destination_floors, elevator_destinations, clocals,
                 mpc, person, best_elevator, gen_read, ret, svars, lvars, kvars, hvars,
                 returns_to_process, return_journeys>>

\* process_pending_returns: the indices whose return_time has passed (the
\* clock is not modelled: any entries may be due)
TrafficFindDue ==
  /\ tpc = "returns"
  /\ returns_to_process' \in SUBSET (1..Len(pending_returns))
  /\ tpc' = "process"
  /\ UNCHANGED <<strategy, num_elevators, num_callers, evars, bvars,
                 elevator_destinations, clocals, mlocals, svars, lvars, kvars, hvars,
                 pending_returns, active_visitors, person_id_counter, return_journeys>>

\* process_pending_returns: one iteration of `for i in reversed(...)`, or the
\* end of the loop, the sleep and the return to the top of _generate_traffic
TrafficProcessReturn ==
  /\ tpc = "process"
  /\ IF returns_to_process = {}
     THEN /\ tpc' = "generate"
          /\ UNCHANGED <<bvars, up_requests, down_requests, returns_to_process,
                         pending_returns, active_visitors, return_journeys, next_uid>>
     ELSE LET i == CHOOSE k \in returns_to_process : \A j \in returns_to_process : j <= k
              original_person == pending_returns[i]
              return_person == create_return_journey(original_person,
                                                     original_person.destination_floor)
          IN /\ pending_returns' = Pop(pending_returns, i)
             /\ next_uid' = next_uid + 1
             /\ return_journeys' = Append(return_journeys,
                                          <<original_person.uid, return_person>>)
             /\ AddPersonRequest(return_person)
             /\ IF Raises(return_person)
                THEN /\ tpc' = "done"
                     /\ UNCHANGED <<active_visitors, returns_to_process>>
                ELSE /\ tpc' = tpc
                     /\ returns_to_process' = returns_to_process \ {i}
                     /\ active_visitors' =
                          {v \in active_visitors : v[1] # original_person.id}
             /\ UNCHANGED <<total_people_generated, total_people_completed,
                            completed_journeys>>
  /\ UNCHANGED <<strategy, num_elevators, num_callers, current_floor, direction, state,
                 passengers, destination_floors, elevator_destinations, clocals,
                 mpc, person, best_elevator, gen_read, ret, svars, lvars, kvars, hvars,
                 person_id_counter>>

\* the worker named in join_timed_out: 0 is the traffic thread, e > 0 the
\* controller of elevator e
TrafficWorker == 0

\* stop_simulation: `self.is_running = False`
StopSimulation ==
  /\ spc.at = "running"
  /\ engine_is_running' = FALSE
  /\ spc' = [at |-> "traffic", i |-> 0]
  /\ UNCHANGED <<strategy, num_elevators, num_callers, evars, bvars,
                 elevator_destinations, clocals, mlocals, svars, tvars, kvars, hvars,
                 traffic_is_running, controller_is_running, join_timed_out>>

\* TrafficManager.stop: `self.is_running = False`
StopTraffic ==
  /\ spc.at = "traffic"
  /\ traffic_is_running' = FALSE
  /\ spc' = [at |-> "join_traffic", i |-> 0]
  /\ UNCHANGED <<strategy, num_elevators, num_callers, evars, bvars,
                 elevator_destinations, clocals, mlocals, svars, tvars, kvars, hvars,
                 engine_is_running, controller_is_running, join_timed_out>>

\* TrafficManager.stop: `self.thread.join(timeout=1.0)` returns, because the
\* thread has ended or because the timeout expired; stop() returns
JoinTraffic ==
  /\ spc.at = "join_traffic"
  /\ join_timed_out' = IF tpc = "done" THEN join_timed_out
                       ELSE join_timed_out \cup {TrafficWorker}
  /\ spc' = [at |-> "controller", i |-> 1]
  /\ UNCHANGED <<strategy, num_elevators, num_callers, evars, bvars,
                 elevator_destinations, clocals, mlocals, svars, tvars, kvars, hvars,
                 engine_is_running, traffic_is_running, controller_is_running>>

\* ElevatorController.stop: `self.is_running = False`
StopController ==
  /\ spc.at = "controller"
  /\ controller_is_running' = [controller_is_running EXCEPT ![spc.i] = FALSE]
  /\ spc' = [at |-> "join_controller", i |-> spc.i]
  /\ UNCHANGED <<strategy, num_elevators, num_callers, evars, bvars,
                 elevator_destinations, clocals, mlocals, svars, tvars, kvars, hvars,
                 engine_is_running, traffic_is_running, join_timed_out>>

\* ElevatorController.stop: `self.thread.join(timeout=1.0)` returns either
\* way; after the last controller stop_simulation prints and returns
JoinController ==
  /\ spc.at = "join_controller"
  /\ join_timed_out' = IF cpc[spc.i] = "done" THEN join_timed_out
                       ELSE join_timed_out \cup {spc.i}
  /\ spc' = IF spc.i < num_elevators THEN [at |-> "controller", i |-> spc.i + 1]
            ELSE [at |-> "returned", i |-> 0]
  /\ UNCHANGED <<strategy, num_elevators, num_callers, evars, bvars,
                 elevator_destinations, clocals, mlocals, svars, tvars, kvars, hvars,
                 engine_is_running, traffic_is_running, controller_is_running>>

\* a running engine without manual callers
InitEngine ==
  /\ strategy \in Injected
  /\ num_elevators \in 1..MaxElevators
  /\ num_callers = 0
  /\ NewElevators
  /\ NewBuilding
  /\ NewThreads
  /\ Untouched

NextEngine ==
  \/ \E e \in Elevators : CtlStep(e)
  \/ \E e \in Elevators : CtlLoad(e)
  \/ \E e \in Elevators : CtlRemove(e)
  \/ \E e \in Elevators : CtlRecheck(e)
  \/ \E e \in Elevators : CtlFinish(e)
  \/ \E e \in Elevators : CtlCount(e)
  \/ \E e \in Elevators : CtlExit(e)
  \/ TrafficGenerate
  \/ TrafficFindDue
  \/ TrafficProcessReturn
  \/ TrafficExit
  \/ StopSimulation
  \/ StopTraffic
  \/ JoinTraffic
  \/ StopController
  \/ JoinController

SpecEngine == InitEngine /\ [][NextEngine]_vars

\* ------------------------------------------------------------------------
\* Direct calls of RoundRobinStrategy.assign_elevator (as the tests make them)
\* on a fleet whose elevators are empty or full, from any cursor position.

\* a passenger list of exactly `capacity` Persons
FullLoad ==
  [i \in 1..Capacity |->
     [uid |-> 0, id |-> 0, current_floor |-> 1, destination_floor |-> NumFloors,
      visit_duration |-> 0, is_leaving |-> FALSE]]

\* RoundRobinStrategy.assign_elevator: the loop with k iterations left; the
\* result is the elevator elevators[last_assigned] (index + 1), or None
RECURSIVE RoundRobinLoop(_, _)
RoundRobinLoop(last, k) ==
  IF k = 0 THEN [last_assigned |-> last, result |-> None]
  ELSE LET nxt == (last + 1) % num_elevators
       IN IF ~is_full(Len(passengers[nxt + 1]))
          THEN [last_assigned |-> nxt, result |-> nxt + 1]
          ELSE RoundRobinLoop(nxt, k - 1)

\* faulty variant: the cursor is not advanced before the first test
RoundRobinAssign_no_advance(last) ==
  IF last >= 0 /\ ~is_full(Len(passengers[last + 1]))
  THEN [last_assigned |-> last, result |-> last + 1]
  ELSE RoundRobinLoop(last, num_elevators)

RoundRobinAssign(last) == RoundRobinLoop(last, num_elevators)

\* a fleet as a test builds it: every elevator on some floor, empty or full
TestElevators ==
  /\ current_floor \in [Elevators -> Floors]
  /\ direction = [e \in Elevators |-> "IDLE"]
  /\ state = [e \in Elevators |-> "IDLE"]
  /\ passengers \in [Elevators -> {<<>>, FullLoad}]
  /\ up_requests = [e \in Elevators |-> {}]
  /\ down_requests = [e \in Elevators |-> {}]
  /\ destination_floors = [e \in Elevators |-> {}]
  /\ elevator_destinations = [e \in Elevators |-> <<>>]

InitRoundRobin ==
  /\ strategy = "round_robin"
  /\ num_elevators \in 1..MaxFleet
  /\ num_callers = 1
  /\ TestElevators
  /\ NewBuilding
  /\ NewThreads
  /\ last_assigned \in (0 - 1)..(num_elevators - 1)
  /\ request = NoRequest
  /\ assigned = <<>>
  /\ Unexercised

\* one call strategy.assign_elevator(elevators, request_floor, direction, config)
RoundRobinCall ==
  /\ strategy = "round_robin"
  /\ Len(assigned) < MaxCalls
  /\ \E request_floor \in Floors, d \in {"UP", "DOWN"} :
       LET r == RoundRobinAssign(last_assigned)
       IN /\ last_assigned' = r.last_assigned
          /\ assigned' = Append(assigned, r.result)
          /\ request' = [floor |-> request_floor, direction |-> d, destination |-> 0]
  /\ UNCHANGED <<strategy, num_elevators, num_callers, evars, bvars,
                 elevator_destinations, clocals, mlocals, lvars, tvars, kvars, hvars>>

NextRoundRobin == RoundRobinCall

SpecRoundRobin == InitRoundRobin /\ [][NextRoundRobin]_vars

\* ------------------------------------------------------------------------
\* Direct calls of DestinationDispatchStrategy (register_destination, then
\* assign_elevator with a destination) on a two-elevator fleet in a taller
\* building, so that registered destinations can lie beyond the threshold.

HFloors == 1..HarnessFloors

\* state and direction of an elevator as a test sets them
FleetStates ==
  {[state |-> "IDLE", direction |-> "IDLE"],
   [state |-> "MOVING", direction |-> "UP"],
   [state |-> "MOVING", direction |-> "DOWN"],
   [state |-> "LOADING", direction |-> "IDLE"]}

InitGrouping ==
  /\ strategy = "destination_dispatch"
  /\ num_elevators = MaxElevators
  /\ num_callers = 1
  /\ current_floor \in [Elevators -> HFloors]
  /\ \E sd \in [Elevators -> FleetStates] :
       /\ state = [e \in Elevators |-> sd[e].state]
       /\ direction = [e \in Elevators |-> sd[e].direction]
  /\ passengers \in [Elevators -> {<<>>, FullLoad}]
  /\ up_requests = [e \in Elevators |-> {}]
  /\ down_requests = [e \in Elevators |-> {}]
  /\ destination_floors = [e \in Elevators |-> {}]
  /\ elevator_destinations = [e \in Elevators |-> <<>>]
  /\ NewBuilding
  /\ NewThreads
  /\ Untouched

\* strategy.register_destination(elevator_idx, request_floor, destination_floor),
\* called before the assignment under test
RegisterDestination(e, destination_floor) ==
  /\ strategy = "destination_dispatch"
  /\ assigned = <<>>
  /\ Len(elevator_destinations[e]) < MaxRegistered
  /\ elevator_destinations' =
       [elevator_destinations EXCEPT ![e] =
          IF destination_floor \in Range(@) THEN @ ELSE Append(@, destination_floor)]
  /\ UNCHANGED <<strategy, num_elevators, num_callers, evars, bvars, clocals,
                 mlocals, xvars>>

\* strategy.assign_elevator(elevators, request_floor, direction, config,
\*                          destination_floor=...)
GroupingCall ==
  /\ strategy = "destination_dispatch"
  /\ Len(assigned) < MaxGroupCalls
  /\ \E request_floor \in HFloors, d \in {"UP", "DOWN"}, destination_floor \in HFloors :
       /\ assigned' = Append(assigned,
                             DestinationDispatchAssign(Elevators, request_floor, d,
                                                       destination_floor))
       /\ request' = [floor |-> request_floor, direction |-> d,
                      destination |-> destination_floor]
  /\ UNCHANGED <<strategy, num_elevators, num_callers, evars, bvars,
                 elevator_destinations, clocals, mlocals, last_assigned, lvars, tvars, kvars, hvars>>

NextGrouping ==
  \/ \E e \in Elevators, f \in HFloors : RegisterDestination(e, f)
  \/ GroupingCall

SpecGrouping == InitGrouping /\ [][NextGrouping]_vars

\* ------------------------------------------------------- vocabulary of the claims
Uids == 1..MaxPersons

\* the positions of the list s that hold the Person object u
At(s, u) == {i \in DOMAIN s : s[i].uid = u}

InQueueUp(u, f) == At(waiting_up[f], u) # {}
InQueueDown(u, f) == At(waiting_down[f], u) # {}
Waiting(u) == \E f \in Floors : InQueueUp(u, f) \/ InQueueDown(u, f)

\* how often the Person object u occurs in waiting queues, manifests and the
\* completed list
WaitingCount(u) ==
  Cardinality(UNION {{<<"up", f, i>> : i \in At(waiting_up[f], u)} : f \in Floors}
              \cup UNION {{<<"down", f, i>> : i \in At(waiting_down[f], u)} : f \in Floors})
RidingCount(u) ==
  Cardinality(UNION {{<<e, i>> : i \in At(passengers[e], u)} : e \in Elevators})
CompletedCount(u) == Cardinality(At(completed_journeys, u))

HoldsCall(e, f, d) ==
  \/ d = "UP" /\ f \in up_requests[e]
  \/ d = "DOWN" /\ f \in down_requests[e]

\* some elevator holds the call of the queue in which u waits
CallRegisteredFor(u) ==
  \E f \in Floors :
    \/ InQueueUp(u, f) /\ \E e \in Elevators : HoldsCall(e, f, "UP")
    \/ InQueueDown(u, f) /\ \E e \in Elevators : HoldsCall(e, f, "DOWN")

\* no call of add_manual_request is in progress and no controller tick can
\* change anything any more
Quiescent ==
  /\ \A c \in Callers : mpc[c] = "idle"
  /\ \A e \in Elevators : ~ENABLED <<Controller(e)>>_vars

\* the argument pairs with a floor outside 1..num_floors or with equal floors
InvalidArgs ==
  {a \in ArgFloors \X ArgFloors :
     \/ a[1] < 1 \/ a[1] > NumFloors
     \/ a[2] < 1 \/ a[2] > NumFloors
     \/ a[1] = a[2]}

\* ------------------------------------------------------------------ claims

\* C1: in every reachable state every elevator's passenger manifest holds at
\* most `capacity` Persons.
C1_CapacityInvariant ==
  \A e \in Elevators : Len(passengers[e]) <= Capacity

\* an elevator has just boarded up to its capacity and left somebody of that
\* queue behind
C1_Witness ==
  \E e \in Elevators :
    /\ cpc[e] = "remove"
    /\ Len(passengers[e]) = Capacity
    /\ passengers_boarding[e] # <<>>
    /\ Len(waiting_up[current_floor[e]]) + Len(waiting_down[current_floor[e]])
         > Len(passengers_boarding[e])

\* C2: for every (floor, direction) pair at most one elevator's request set
\* contains that floor, in every reachable state.
C2_SingleAssignment ==
  \A f \in Floors :
    /\ Cardinality({e \in Elevators : f \in up_requests[e]}) <= 1
    /\ Cardinality({e \in Elevators : f \in down_requests[e]}) <= 1

\* C3: no Person is ever in the manifests of two elevators, or twice in one.
C3_BoardsAtMostOnce ==
  \A u \in Uids : RidingCount(u) <= 1

\* C4: once all the add_manual_request calls have returned True, `generated`
\* has grown by the number K of calls, and each of the K Persons is present
\* exactly once across waiting queues, manifests and the completed list.
C4_ExactlyOnceAndCounted ==
  ((\A c \in Callers : mpc[c] = "idle" /\ ret[c] \in {"none", "true"})
    /\ (\A e \in Elevators : cpc[e] = "step"))
  => /\ total_people_generated = next_uid - 1
     /\ \A u \in 1..(next_uid - 1) :
          WaitingCount(u) + RidingCount(u) + CompletedCount(u) = 1

\* C5: a Person whose submission got no elevator from the strategy (the call
\* to find_best_elevator returned None) and who is waiting will eventually
\* have the call of its queue registered on some elevator, or have left the
\* queue (boarded).
C5_UnassignedEventuallyServed ==
  \A c \in 1..MaxCallers : \A u \in Uids :
    (c \in Callers /\ mpc[c] = "inc" /\ best_elevator[c] = None
       /\ person[c].uid = u /\ Waiting(u))
    ~> (CallRegisteredFor(u) \/ ~Waiting(u))

\* C6: in a single-elevator building, when the submitted calls have returned
\* and the controller has nothing left to do, every submitted Person has been
\* taken from its queue, carried and deboarded, and `completed` counts each
\* of them once.
C6_SingleElevatorDeliversAll ==
  Quiescent =>
    /\ \A u \in 1..(next_uid - 1) :
         WaitingCount(u) = 0 /\ RidingCount(u) = 0 /\ CompletedCount(u) = 1
    /\ total_people_completed = next_uid - 1

\* C7: Scenario B, scaled to the bounds: with all the elevators starting at
\* floor 1 and MaxPersons requests submitted from floor 1 to the floors above,
\* the final state has `completed` equal to exactly the number of requests,
\* all queues and manifests empty, and no elevator over its capacity.
C7_ScenarioB ==
  (Quiescent /\ next_uid - 1 = MaxPersons) =>
    /\ total_people_completed = MaxPersons
    /\ \A f \in Floors : waiting_up[f] = <<>> /\ waiting_down[f] = <<>>
    /\ \A e \in Elevators : passengers[e] = <<>>
    /\ \A e \in Elevators : Len(passengers[e]) <= Capacity

\* C8: add_manual_request(from, to) with a floor outside 1..num_floors or with
\* from = to returns False and changes no waiting queue, no elevator, no
\* strategy state and no counter.
C8_InvalidRejected ==
  [][\A c \in Callers : \A a \in InvalidArgs :
       AddManualRequest(c, a[1], a[2])
       => /\ ret'[c] = "false"
          /\ UNCHANGED <<evars, bvars, elevator_destinations, strategy, clocals,
                         mpc, person, best_elevator, gen_read, next_uid>>]_vars

\* a caller has had an invalid request refused after Persons were submitted
C8_Witness ==
  \E c \in Callers : ret[c] = "false" /\ next_uid > 1

\* C9: for valid distinct floors add_manual_request appends exactly one new
\* Person at the tail of the origin floor's Up queue (destination above) or
\* Down queue (destination below), changes no other queue, and ends by
\* returning True with `generated` one higher, whatever strategy is injected.
C9_ValidAccepted ==
  [][\A c \in Callers :
       /\ \A from_floor \in Floors : \A to_floor \in Floors :
            (from_floor # to_floor /\ AddManualRequest(c, from_floor, to_floor))
            => /\ waiting_up' = IF to_floor > from_floor
                    THEN [waiting_up EXCEPT ![from_floor] = Append(@, person'[c])]
                    ELSE waiting_up
               /\ waiting_down' = IF to_floor < from_floor
                    THEN [waiting_down EXCEPT ![from_floor] = Append(@, person'[c])]
                    ELSE waiting_down
               /\ person'[c].current_floor = from_floor
               /\ person'[c].destination_floor = to_floor
               /\ WaitingCount(person'[c].uid) = 0
       /\ (mpc[c] # "idle" /\ mpc'[c] = "idle")
            => /\ ret'[c] = "true"
               /\ total_people_generated' = total_people_generated + 1
               /\ waiting_up' = waiting_up /\ waiting_down' = waiting_down]_vars

\* C10: while an elevator's direction is Up and an up-call or a destination
\* lies above its floor, no step of its tick sets its direction to Down; the
\* condition lasts until the tick ends.
C10_UpStaysUp ==
  [][\A e \in Elevators :
       (direction[e] = "UP" /\ has_requests_in_direction(e, "UP", current_floor[e]))
       => /\ direction'[e] # "DOWN"
          /\ cpc'[e] # "step" =>
               /\ direction'[e] = "UP"
               /\ \E f \in up_requests'[e] \cup destination_floors'[e] : f > current_floor'[e]]_vars

\* an elevator moving Up has left floor 1 with a request above it and a call
\* behind it
C10_Witness ==
  \E e \in Elevators :
    /\ direction[e] = "UP" /\ state[e] = "MOVING" /\ cpc[e] = "step"
    /\ current_floor[e] > 1
    /\ has_requests_in_direction(e, "UP", current_floor[e])
    /\ \E f \in up_requests[e] \cup down_requests[e] : f < current_floor[e]

\* C11 (RoundRobin fairness): when none of the N elevators is full, any N
\* consecutive calls of RoundRobinStrategy.assign_elevator, from whatever
\* cursor position, return every index 0..N-1 (elevators 1..N) exactly once.
C11_RoundRobinFair ==
  (\A e \in Elevators : ~is_full(Len(passengers[e])))
    => \A i \in 1..Len(assigned) :
         i + num_elevators - 1 <= Len(assigned)
           => {assigned[j] : j \in i..(i + num_elevators - 1)} = Elevators

\* three empty elevators, three calls, the first of which did not start at
\* index 0
C11_Witness ==
  /\ strategy = "round_robin"
  /\ num_elevators = 3
  /\ \A e \in Elevators : ~is_full(Len(passengers[e]))
  /\ Len(assigned) = 3
  /\ assigned[1] # 1

\* the elevator has a registered destination within the grouping threshold
Overlaps(e, destination_floor) ==
  \E x \in Range(elevator_destinations[e]) : Abs(x - destination_floor) <= GroupingThreshold

\* the elevator meets the three conditions of the grouping rule for the call
GroupsWith(e, r) ==
  /\ ~is_full(Len(passengers[e]))
  /\ Overlaps(e, r.destination)
  /\ state[e] = "IDLE" \/ (state[e] = "MOVING" /\ direction[e] = r.direction)

\* C12 (DestinationDispatch grouping): an elevator E that is not full, has a
\* registered destination within 3 floors of the requested destination and
\* is Idle or moving in the request's direction is the one assign_elevator
\* returns, whatever the position and state of the elevators that have no
\* overlapping destination.
C12_GroupedElevatorChosen ==
  (strategy = "destination_dispatch" /\ assigned # <<>>)
    => \A e \in Elevators :
         (/\ GroupsWith(e, request)
          /\ \A o \in Elevators \ {e} : ~Overlaps(o, request.destination))
           => assigned[Len(assigned)] = e

\* elevator 2 is grouped although elevator 1, idle, not full and without an
\* overlapping destination, is strictly closer to the request floor
C12_Witness ==
  /\ strategy = "destination_dispatch"
  /\ assigned = <<2>>
  /\ GroupsWith(2, request)
  /\ state[1] = "IDLE" /\ ~is_full(Len(passengers[1]))
  /\ elevator_destinations[1] # <<>> /\ ~Overlaps(1, request.destination)
  /\ Distance(1, request.floor) < Distance(2, request.floor)

\* C13 (dispatch skips unqualified elevators): an elevator that receives a
\* call from Building.assign_elevator_to_request is, at that moment, neither
\* in Maintenance nor at capacity; hence no call is registered when every
\* elevator is full.
C13_DispatchSkipsUnqualified ==
  [][\A e \in Elevators :
       (\/ ~(up_requests'[e] \subseteq up_requests[e])
        \/ ~(down_requests'[e] \subseteq down_requests[e]))
         => /\ state[e] # "MAINTENANCE"
            /\ ~is_full(Len(passengers[e]))]_vars

\* C14 (shutdown failure is surfaced): stop_simulation returns normally only
\* if no worker was still alive when the timeout of its join expired.
C14_ShutdownFailureSurfaced ==
  spc.at = "returned" => join_timed_out = {}

\* C15 (stop is observed at the top of the loop): once stop_simulation has
\* set the stop flag, no elevator controller and no traffic source begins a
\* new tick.
C15_NoNewTickAfterStop ==
  [][~engine_is_running
       => /\ \A e \in Elevators : ~CtlStep(e)
          /\ ~TrafficGenerate]_vars

\* every Person object that is in a queue, in a manifest or in the completed list
InBuilding ==
  UNION {Range(waiting_up[f]) \cup Range(waiting_down[f]) : f \in Floors}
    \cup UNION {Range(passengers[e]) : e \in Elevators}
    \cup Range(completed_journeys)

\* C16 (return trip only after the visit): at the moment a return-trip Person
\* is created and injected, its visitor is in the completed list and is
\* neither in a waiting queue nor in a manifest.
C16_ReturnAfterCompletion ==
  [][Len(return_journeys') > Len(return_journeys)
       => LET visitor == return_journeys'[Len(return_journeys')][1]
          IN /\ At(completed_journeys, visitor) # {}
             /\ \A f \in Floors : ~InQueueUp(visitor, f) /\ ~InQueueDown(visitor, f)
             /\ \A e \in Elevators : At(passengers[e], visitor) = {}]_vars

\* the return trips created so far for the Person object u, and the entries
\* of pending_returns that will create one
ReturnsOf(u) == {i \in DOMAIN return_journeys : return_journeys[i][1] = u}
PendingOf(u) == At(pending_returns, u)

\* C17 (one return trip per visitor): every Person in the building that was
\* submitted with a positive dwell and is not a return trip has exactly one
\* return trip, created or still pending; that trip starts at the visitor's
\* destination, goes to floor 1 and is marked as a return; a return trip has
\* none.
C17_ExactlyOneReturn ==
  /\ \A p \in InBuilding :
       IF p.visit_duration > 0 /\ ~p.is_leaving
       THEN /\ Cardinality(ReturnsOf(p.uid)) + Cardinality(PendingOf(p.uid)) = 1
            /\ \A i \in ReturnsOf(p.uid) :
                 LET r == return_journeys[i][2]
                 IN /\ r.current_floor = p.destination_floor
                    /\ r.destination_floor = 1
                    /\ r.is_leaving
       ELSE ReturnsOf(p.uid) = {} /\ PendingOf(p.uid) = {}

\* every Person object that was ever enqueued and has not vanished
Everyone ==
  InBuilding \cup UNION {Range(passengers_leaving[e]) : e \in Elevators}

\* the Person object u has boarded an elevator (it rides, is being let out,
\* or has completed)
Boarded(u) ==
  \/ \E e \in Elevators : At(passengers[e], u) # {} \/ At(passengers_leaving[e], u) # {}
  \/ At(completed_journeys, u) # {}

\* q was appended to the (floor, direction) queue of p before p was
EnqueuedBefore(q, p) ==
  /\ q.uid < p.uid
  /\ q.current_floor = p.current_floor
  /\ PersonDirection(q) = PersonDirection(p)

\* C18 (boarding follows insertion order): when a Person has boarded, every
\* Person enqueued earlier in the same (floor, direction) queue has boarded
\* too, before it or at the same stop.
C18_BoardingIsFifo ==
  \A p \in Everyone : \A q \in Everyone :
    (EnqueuedBefore(q, p) /\ Boarded(p.uid)) => Boarded(q.uid)

\* the second Person of a queue has boarded after the first
C18_Witness ==
  \E p \in Everyone : \E q \in Everyone :
    /\ EnqueuedBefore(q, p)
    /\ \E e \in Elevators : At(passengers[e], p.uid) # {}
    /\ At(completed_journeys, q.uid) # {}

\* the controller of e is between two ticks (or has ended)
AtTickBoundary(e) == cpc[e] \in {"step", "done"}

\* C19 (destination set mirrors the manifest): at every tick boundary the
\* destination set of an elevator is exactly the set of the destination
\* floors of its passengers.
C19_DestinationsMatchPassengers ==
  \A e \in Elevators :
    AtTickBoundary(e)
      => destination_floors[e] = {p.destination_floor : p \in Range(passengers[e])}

\* an elevator that has let a passenger out at a destination now carries
\* another one
C19_Witness ==
  \E e \in Elevators :
    /\ AtTickBoundary(e)
    /\ passengers[e] # <<>>
    /\ destination_floors[e] # {}
    /\ \E i \in DOMAIN completed_journeys :
         completed_journeys[i].destination_floor = current_floor[e]

\* C20 (counters are monotone and consistent): total_people_generated and
\* total_people_completed never decrease, and whenever no controller is inside
\* a floor stop total_people_completed equals the length of completed_journeys.
C20_CountersConsistent ==
  /\ [][/\ total_people_generated' >= total_people_generated
        /\ total_people_completed' >= total_people_completed]_vars
  /\ []((\A e \in Elevators : AtTickBoundary(e))
          => total_people_completed = Len(completed_journeys))

\* C21 (grouping state stays accurate): with DestinationDispatch injected,
\* after each completed floor stop the destinations registered for an
\* elevator are exactly the floors of its internal destination set, each once.
C21_RegisteredMatchesDestinations ==
  strategy = "destination_dispatch"
    => \A e \in Elevators :
         AtTickBoundary(e)
           => /\ Range(elevator_destinations[e]) = destination_floors[e]
              /\ Len(elevator_destinations[e]) = Cardinality(destination_floors[e])

\* an elevator that has cleared the destination of a delivered passenger
\* carries a registered one
C21_Witness ==
  /\ strategy = "destination_dispatch"
  /\ completed_journeys # <<>>
  /\ \E e \in Elevators :
       /\ AtTickBoundary(e)
       /\ elevator_destinations[e] # <<>>
       /\ passengers[e] # <<>>

\* C22 (the strategy is consulted only for an unregistered call): a submission
\* whose (floor, direction) call is already registered on some elevator does
\* not go on to the strategy, leaves every elevator and the state of the
\* strategies as they were, and appends the Person to its waiting queue only.
C22_RegisteredCallNotReassigned ==
  [][\A c \in Callers :
       LET p == person'[c]
           f == p.current_floor
           d == PersonDirection(p)
       IN (/\ mpc[c] = "idle" /\ p # NoPerson
           /\ \E e \in Elevators : HoldsCall(e, f, d))
            => /\ mpc'[c] # "find"
               /\ UNCHANGED <<evars, elevator_destinations, svars>>
               /\ waiting_up' = IF d = "UP" THEN [waiting_up EXCEPT ![f] = Append(@, p)]
                                ELSE waiting_up
               /\ waiting_down' = IF d = "DOWN"
                                  THEN [waiting_down EXCEPT ![f] = Append(@, p)]
                                  ELSE waiting_down]_vars

\* a caller past the scan that found its call registered: the strategy was
\* not consulted and the Person waits behind an earlier one
C22_Witness ==
  \E c \in Callers :
    /\ mpc[c] = "inc"
    /\ best_elevator[c] = Unset
    /\ \E e \in Elevators :
         HoldsCall(e, person[c].current_floor, PersonDirection(person[c]))
    /\ Len(waiting_up[person[c].current_floor]) + Len(waiting_down[person[c].current_floor]) >= 2

\* --------------------------------------------- a Person against the clock
\* everything but the objects exercised on their own
corevars == <<strategy, num_elevators, num_callers, evars, bvars,
              elevator_destinations, clocals, mlocals, svars, lvars, tvars, kvars>>

\* a building of one idle elevator that nothing is submitted to
Standalone ==
  /\ strategy = "none"
  /\ num_elevators = 1
  /\ num_callers = 1
  /\ NewElevators
  /\ NewBuilding
  /\ NewThreads
  /\ NewStrategy

\* Python's truth test of an Optional[float]: None and 0.0 are false
Truthy(t) == t # NoTime /\ t # 0

\* Person.wait_time, read when time.time() returns now
wait_time(p, now) ==
  IF Truthy(p.boarding_time)
  THEN p.boarding_time - p.arrival_time
  ELSE now - p.arrival_time

\* the Person is created when the clock shows any of its first values
InitWait ==
  /\ Standalone
  /\ current_time \in 0..MaxTime
  /\ subject = [arrival_time |-> current_time, boarding_time |-> NoTime]
  /\ observed_wait = [at |-> NoTime, value |-> 0]
  /\ NewMLBased
  /\ NewAdaptive
  /\ NewEventBus
  /\ NothingCalled
  /\ NeverStarted

\* the clock advances
Tick ==
  /\ current_time < MaxTime
  /\ current_time' = current_time + 1
  /\ UNCHANGED <<corevars, subject, observed_wait, mlvars, avars, busvars, ovars, rvars>>

\* Elevator.board_passenger: person.boarding_time = time.time()
BoardSubject ==
  /\ subject.boarding_time = NoTime
  /\ subject' = [subject EXCEPT !.boarding_time = current_time]
  /\ UNCHANGED <<corevars, current_time, observed_wait, mlvars, avars, busvars, ovars, rvars>>

\* a reader evaluates person.wait_time
ReadWait ==
  /\ observed_wait' = [at |-> current_time, value |-> wait_time(subject, current_time)]
  /\ UNCHANGED <<corevars, current_time, subject, mlvars, avars, busvars, ovars, rvars>>

NextWait ==
  \/ Tick
  \/ BoardSubject
  \/ ReadWait

SpecWait == InitWait /\ [][NextWait]_vars

\* C23 (wait time): a value read from wait_time is boarding time minus arrival
\* time if the Person had boarded by then, whatever the boarding timestamp,
\* and the time of the reading minus arrival time if the Person was waiting.
C23_WaitTime ==
  observed_wait.at # NoTime
    => observed_wait.value =
         IF subject.boarding_time # NoTime /\ subject.boarding_time <= observed_wait.at
         THEN subject.boarding_time - subject.arrival_time
         ELSE observed_wait.at - subject.arrival_time

\* ------------------------------------------------------------------------
\* Direct calls of NearestCarStrategy, SCANStrategy and LOOKStrategy on a
\* fleet that a test has placed: any floor, any state, any load.

\* ElevatorConfig(): the strategy parameters a test passes
ElevatorConfig ==
  [distance_weight |-> 1, full_penalty |-> 50, same_direction_bonus |-> 0 - 5,
   opposite_direction_penalty |-> 20, load_factor_weight |-> 20, idle_bonus |-> 0 - 8,
   enable_load_balancing |-> TRUE]

\* Elevator.passenger_count
passenger_count(e) == Len(passengers[e])

\* Elevator.is_full of an elevator of the placed fleet (capacity HarnessCapacity)
IsFull(e) == passenger_count(e) >= HarnessCapacity

\* a passenger list of n Persons
Load(n) ==
  [i \in 1..n |->
     [uid |-> 0, id |-> 0, current_floor |-> 1, destination_floor |-> NumFloors,
      visit_duration |-> 0, is_leaving |-> FALSE]]

\* NearestCarStrategy._calculate_score, times HarnessCapacity (to stay in
\* the integers)
NearestCar_calculate_score(e, request_floor, d, config) ==
  LET n == passenger_count(e)
      distance == Abs(current_floor[e] - request_floor)
      bonus == IF state[e] = "IDLE" THEN config.idle_bonus
               ELSE IF direction[e] = d /\ 10 * n < 7 * HarnessCapacity
                 THEN config.same_direction_bonus
               ELSE IF direction[e] # "IDLE" /\ direction[e] # d
                 THEN config.opposite_direction_penalty
               ELSE 0
      load == IF config.enable_load_balancing THEN n * config.load_factor_weight ELSE 0
  IN IF IsFull(e) THEN config.full_penalty * HarnessCapacity
     ELSE (distance * config.distance_weight + bonus) * HarnessCapacity + load

\* LOOKStrategy._calculate_look_score, times 10
calculate_look_score_distance_only(e, request_floor, d) ==
  Abs(current_floor[e] - request_floor) * 5

calculate_look_score(e, request_floor, d) ==
  LET distance == Abs(current_floor[e] - request_floor)
  IN IF state[e] = "IDLE" THEN distance * 5
     ELSE IF /\ direction[e] = d
             /\ \/ d = "UP" /\ current_floor[e] <= request_floor
                \/ d = "DOWN" /\ current_floor[e] >= request_floor
       THEN distance * 7
     ELSE distance * 20 + 1000

\* the loop `for i, elevator in enumerate(elevators)` of NearestCar and LOOK
\* from elevator i on: skipped elevators `continue`, and `score < best_score`
\* replaces the best (best_elevator = None stands for best_score = inf)
RECURSIVE BestLoop(_, _, _, _, _)
BestLoop(i, best, best_score, score, skipped) ==
  IF i > num_elevators THEN best
  ELSE IF i \in skipped THEN BestLoop(i + 1, best, best_score, score, skipped)
  ELSE IF best = None \/ score[i] < best_score
    THEN BestLoop(i + 1, i, score[i], score, skipped)
  ELSE BestLoop(i + 1, best, best_score, score, skipped)

\* faulty variant: `score <= best_score`, the last of the lowest wins
NearestCarAssign_last_lowest(request_floor, d, config) ==
  LET score == [e \in Elevators |-> NearestCar_calculate_score(e, request_floor, d, config)]
  IN CHOOSE i \in Elevators :
       \A j \in Elevators : score[i] < score[j] \/ (score[i] = score[j] /\ i >= j)

\* NearestCarStrategy.assign_elevator (the elevator, index + 1; None = 0)
NearestCarAssign(request_floor, d, config) ==
  BestLoop(1, None, 0,
           [e \in Elevators |-> NearestCar_calculate_score(e, request_floor, d, config)],
           {})

\* LOOKStrategy.assign_elevator
LOOKAssign(request_floor, d) ==
  BestLoop(1, None, 0,
           [e \in Elevators |-> calculate_look_score(e, request_floor, d)],
           {e \in Elevators : IsFull(e)})

\* min(candidates, key=distance)[0] over (index, elevator) pairs in index order
Closest(candidates, request_floor) ==
  FirstMin(candidates, [e \in candidates |-> Abs(current_floor[e] - request_floor)])

\* faulty variant: every same-direction elevator is a candidate, passed or not
SCANAssign_passed_too(request_floor, d) ==
  LET same_direction == {e \in Elevators : direction[e] = d /\ ~IsFull(e)}
      idle_elevators == {e \in Elevators : state[e] = "IDLE" /\ ~IsFull(e)}
      available == {e \in Elevators : ~IsFull(e)}
  IN IF same_direction # {} THEN Closest(same_direction, request_floor)
     ELSE IF idle_elevators # {} THEN Closest(idle_elevators, request_floor)
     ELSE IF available # {} THEN Closest(available, request_floor)
     ELSE None

\* SCANStrategy.assign_elevator
SCANAssign(request_floor, d) ==
  LET same_direction == {e \in Elevators : direction[e] = d /\ ~IsFull(e)}
      candidates == IF d = "UP"
                    THEN {e \in same_direction : current_floor[e] <= request_floor}
                    ELSE {e \in same_direction : current_floor[e] >= request_floor}
      idle_elevators == {e \in Elevators : state[e] = "IDLE" /\ ~IsFull(e)}
      available == {e \in Elevators : ~IsFull(e)}
  IN IF same_direction # {} /\ candidates # {} THEN Closest(candidates, request_floor)
     ELSE IF idle_elevators # {} THEN Closest(idle_elevators, request_floor)
     ELSE IF available # {} THEN Closest(available, request_floor)
     ELSE None

\* the fleet of a test: each elevator on any floor, in any state, with any load
PlacedFleet ==
  /\ current_floor \in [Elevators -> Floors]
  /\ \E sd \in [Elevators -> FleetStates] :
       /\ state = [e \in Elevators |-> sd[e].state]
       /\ direction = [e \in Elevators |-> sd[e].direction]
  /\ \E n \in [Elevators -> 0..HarnessCapacity] :
       passengers = [e \in Elevators |-> Load(n[e])]
  /\ up_requests = [e \in Elevators |-> {}]
  /\ down_requests = [e \in Elevators |-> {}]
  /\ destination_floors = [e \in Elevators |-> {}]
  /\ elevator_destinations = [e \in Elevators |-> <<>>]

InitPlaced ==
  /\ strategy \in {"default", "scan", "look"}
  /\ num_elevators = MaxFleet
  /\ num_callers = 1
  /\ PlacedFleet
  /\ NewBuilding
  /\ NewThreads
  /\ Untouched

\* the bookkeeping of one direct call strategy.assign_elevator(elevators,
\* request_floor, d, config) that returned result
Called(request_floor, d, result) ==
  /\ assigned = <<>>
  /\ assigned' = <<result>>
  /\ request' = [floor |-> request_floor, direction |-> d, destination |-> 0]
  /\ UNCHANGED <<strategy, num_elevators, num_callers, evars, bvars,
                 elevator_destinations, clocals, mlocals, last_assigned, lvars, tvars,
                 kvars, hvars>>

NearestCarCall ==
  /\ strategy = "default"
  /\ \E request_floor \in Floors, d \in {"UP", "DOWN"} :
       Called(request_floor, d, NearestCarAssign(request_floor, d, ElevatorConfig))

SCANCall ==
  /\ strategy = "scan"
  /\ \E request_floor \in Floors, d \in {"UP", "DOWN"} :
       Called(request_floor, d, SCANAssign(request_floor, d))

LOOKCall ==
  /\ strategy = "look"
  /\ \E request_floor \in Floors, d \in {"UP", "DOWN"} :
       Called(request_floor, d, LOOKAssign(request_floor, d))

NextPlaced ==
  \/ NearestCarCall
  \/ SCANCall
  \/ LOOKCall

SpecPlaced == InitPlaced /\ [][NextPlaced]_vars

\* the elevator of S that comes first by key, and by index among equal keys
LowestFirst(S, key) ==
  CHOOSE e \in S : \A j \in S : key[e] < key[j] \/ (key[e] = key[j] /\ e <= j)

\* C24 (NearestCar): the elevator returned has the lowest score and the
\* lowest index among those of equal score; when every elevator is Idle and
\* empty it is the lowest-indexed elevator at minimum distance from the
\* request floor.
C24_NearestCarLowestScore ==
  (strategy = "default" /\ assigned # <<>>)
    => LET r == assigned[1]
           score == [e \in Elevators |->
                       NearestCar_calculate_score(e, request.floor, request.direction,
                                                  ElevatorConfig)]
           distance == [e \in Elevators |-> Abs(current_floor[e] - request.floor)]
       IN /\ r \in Elevators
          /\ \A j \in Elevators : score[r] <= score[j]
          /\ \A j \in Elevators : score[j] = score[r] => r <= j
          /\ (\A e \in Elevators : state[e] = "IDLE" /\ passengers[e] = <<>>)
               => r = LowestFirst(Elevators, distance)

\* two elevators share the lowest score, which is not that of the nearest
\* elevator, and the first of the two was returned
C24_Witness ==
  /\ strategy = "default" /\ assigned # <<>>
  /\ LET r == assigned[1]
         score == [e \in Elevators |->
                     NearestCar_calculate_score(e, request.floor, request.direction,
                                                ElevatorConfig)]
     IN /\ r \in Elevators
        /\ \E j \in Elevators : j > r /\ score[j] = score[r]
        /\ \E j \in Elevators :
             Abs(current_floor[j] - request.floor) < Abs(current_floor[r] - request.floor)

\* C25 (SCAN): the elevator returned is the nearest non-full elevator that
\* moves in the request direction and has not passed the request floor (at
\* or below it for Up, at or above it for Down); if there is none, the
\* nearest Idle non-full elevator; if there is none, the nearest non-full
\* elevator; among equally near ones the lowest index.
C25_ScanPreference ==
  (strategy = "scan" /\ assigned # <<>>)
    => LET r == assigned[1]
           f == request.floor
           d == request.direction
           distance == [e \in Elevators |-> Abs(current_floor[e] - f)]
           non_full == {e \in Elevators : ~IsFull(e)}
           approaching == {e \in non_full :
                             /\ direction[e] = d
                             /\ d = "UP" => current_floor[e] <= f
                             /\ d = "DOWN" => current_floor[e] >= f}
           idle == {e \in non_full : state[e] = "IDLE"}
       IN IF approaching # {} THEN r = LowestFirst(approaching, distance)
          ELSE IF idle # {} THEN r = LowestFirst(idle, distance)
          ELSE non_full # {} => r = LowestFirst(non_full, distance)

\* an approaching elevator was returned although an Idle one is nearer and
\* an elevator of lower index, moving the same way and as near, has passed
\* the floor
C25_Witness ==
  /\ strategy = "scan" /\ assigned # <<>>
  /\ LET r == assigned[1]
         f == request.floor
     IN /\ r \in Elevators
        /\ direction[r] = request.direction
        /\ \E j \in Elevators :
             /\ state[j] = "IDLE" /\ ~IsFull(j)
             /\ Abs(current_floor[j] - f) < Abs(current_floor[r] - f)
        /\ \E j \in Elevators :
             /\ j < r /\ direction[j] = request.direction /\ ~IsFull(j)
             /\ Abs(current_floor[j] - f) = Abs(current_floor[r] - f)

\* C26 (LOOK): the elevator returned is the lowest-indexed non-full elevator
\* of minimal score, the score being 0.5 x distance for an Idle elevator,
\* 0.7 x distance for one that moves in the request direction and will still
\* pass the request floor, and 2.0 x distance + 100 for any other.
C26_LookLowestScore ==
  (strategy = "look" /\ assigned # <<>>)
    => LET r == assigned[1]
           f == request.floor
           d == request.direction
           non_full == {e \in Elevators : ~IsFull(e)}
           will_pass == [e \in Elevators |->
                           \/ d = "UP" /\ current_floor[e] <= f
                           \/ d = "DOWN" /\ current_floor[e] >= f]
           tenths == [e \in Elevators |->
                        IF state[e] = "IDLE" THEN 5 * Abs(current_floor[e] - f)
                        ELSE IF direction[e] = d /\ will_pass[e]
                          THEN 7 * Abs(current_floor[e] - f)
                        ELSE 20 * Abs(current_floor[e] - f) + 1000]
       IN non_full # {} => r = LowestFirst(non_full, tenths)

\* a moving elevator that will pass the floor was returned although an Idle
\* elevator waits farther away and a third, non-full one stands nearer
C26_Witness ==
  /\ strategy = "look" /\ assigned # <<>>
  /\ LET r == assigned[1]
         f == request.floor
     IN /\ r \in Elevators
        /\ state[r] = "MOVING"
        /\ \E j \in Elevators : state[j] = "IDLE" /\ ~IsFull(j)
        /\ \E j \in Elevators :
             ~IsFull(j) /\ Abs(current_floor[j] - f) < Abs(current_floor[r] - f)

\* ------------------------------------------------------------------------
\* Direct calls of MLBasedStrategy: assign_elevator on a placed fleet and
\* update_from_feedback with any wait time and any index. Weights are kept in
\* hundredths.

\* self.learning_rate = 0.1, in tenths
learning_rate == 1

\* the smallest weight the clamp allows: max(0.1, weight)
WeightFloor == 10

\* the floors of a building tall enough for a call five floors away
MLFloors == {1, HarnessFloors + 1}

\* wait times below, at and between the two thresholds
WaitTimes == {5, 10, 30}

\* state and direction of the elevators of this fleet
MLFleetStates ==
  {[state |-> "IDLE", direction |-> "IDLE"], [state |-> "MOVING", direction |-> "UP"]}

\* assignment indices: negative, valid, and past the end of the history
AssignmentIndices == (0 - 1)..MaxAssignments

\* weights after 17 poor feedbacks on an assignment that implicates all three
LowWeights ==
  [k \in WeightNames |-> IF k = "same_direction" THEN 100 ELSE WeightFloor + 5]

\* MLBasedStrategy._calculate_ml_score, in hundredths times HarnessCapacity
calculate_ml_score(e, request_floor, d, config) ==
  LET distance == Abs(current_floor[e] - request_floor)
      idle == IF state[e] = "IDLE" THEN 10 * strategy_weights["idle_preference"] ELSE 0
      same == IF direction[e] = d THEN 5 * strategy_weights["same_direction"] ELSE 0
      load == IF config.enable_load_balancing
              THEN passenger_count(e) * 15 * strategy_weights["load_balanced"]
              ELSE 0
  IN (distance * strategy_weights["nearest"] - idle - same) * HarnessCapacity + load

\* MLBasedStrategy.assign_elevator: the elevator chosen (None = 0)
MLAssign(request_floor, d, config) ==
  BestLoop(1, None, 0,
           [e \in Elevators |-> calculate_ml_score(e, request_floor, d, config)],
           {e \in Elevators : IsFull(e)})

\* the entry _record_assignment appends (elevator_load as passengers of
\* HarnessCapacity)
AssignmentRecord(e, request_floor) ==
  [elevator_idx |-> e - 1, request_floor |-> request_floor,
   elevator_floor |-> current_floor[e], elevator_state |-> state[e],
   elevator_load |-> passenger_count(e)]

\* the reward of update_from_feedback, in tenths
Reward(wait) == IF wait < 10 THEN 10 ELSE IF wait < 30 THEN 5 ELSE 0 - 5

\* faulty variant: no clamp
Clamp_none(w) == w

\* max(0.1, weight)
Clamp(w) == IF w < WeightFloor THEN WeightFloor ELSE w

\* the weights a feedback on the assignment a implicates
Implicated(a) ==
  {k \in WeightNames :
     \/ k = "idle_preference" /\ a.elevator_state = "IDLE"
     \/ k = "nearest" /\ Abs(a.elevator_floor - a.request_floor) < 5
     \/ k = "load_balanced" /\ 2 * a.elevator_load < HarnessCapacity}

\* the weights after update_from_feedback(wait, ...) found the assignment a
UpdatedWeights(a, wait) ==
  [k \in WeightNames |->
     Clamp(IF k \in Implicated(a)
           THEN strategy_weights[k] + learning_rate * Reward(wait)
           ELSE strategy_weights[k])]

InitMLBased ==
  /\ strategy = "ml"
  /\ num_elevators = MaxElevators
  /\ num_callers = 1
  /\ current_floor \in [Elevators -> MLFloors]
  /\ \E sd \in [Elevators -> MLFleetStates] :
       /\ state = [e \in Elevators |-> sd[e].state]
       /\ direction = [e \in Elevators |-> sd[e].direction]
  /\ \E n \in [Elevators -> 0..HarnessCapacity] :
       passengers = [e \in Elevators |-> Load(n[e])]
  /\ up_requests = [e \in Elevators |-> {}]
  /\ down_requests = [e \in Elevators |-> {}]
  /\ destination_floors = [e \in Elevators |-> {}]
  /\ elevator_destinations = [e \in Elevators |-> <<>>]
  /\ NewBuilding
  /\ NewThreads
  /\ NewStrategy
  /\ NewPerson
  /\ strategy_weights \in {[k \in WeightNames |-> 100], LowWeights}
  /\ assignment_history = <<>>
  /\ feedback = NoFeedback
  /\ NewAdaptive
  /\ NewEventBus
  /\ NothingCalled
  /\ NeverStarted

\* strategy.assign_elevator(elevators, request_floor, d, config)
MLAssignCall ==
  /\ strategy = "ml"
  /\ Len(assignment_history) < MaxAssignments
  /\ \E request_floor \in MLFloors, d \in {"UP", "DOWN"} :
       LET best == MLAssign(request_floor, d, ElevatorConfig)
       IN /\ assigned' = <<best>>
          /\ request' = [floor |-> request_floor, direction |-> d, destination |-> 0]
          /\ assignment_history' =
               IF best # None
               THEN Append(assignment_history, AssignmentRecord(best, request_floor))
               ELSE assignment_history
  /\ UNCHANGED <<strategy, num_elevators, num_callers, evars, bvars,
                 elevator_destinations, clocals, mlocals, last_assigned, lvars, tvars,
                 kvars, pvars, strategy_weights, feedback, avars, busvars, ovars, rvars>>

\* strategy.update_from_feedback(wait, assignment_idx)
MLFeedbackCall ==
  /\ strategy = "ml"
  /\ feedback.count < MaxFeedback
  /\ \E wait \in WaitTimes, assignment_idx \in AssignmentIndices :
       LET n == Len(assignment_history)
           called == [count |-> feedback.count + 1, wait_time |-> wait,
                      assignment_idx |-> assignment_idx, outcome |-> "returned",
                      assignment |-> <<>>, before |-> strategy_weights]
       IN IF assignment_idx >= n
          THEN \* the early return
               /\ feedback' = called
               /\ UNCHANGED strategy_weights
          ELSE IF assignment_idx < 0 - n
          THEN \* assignment_history[assignment_idx] raises IndexError
               /\ feedback' = [called EXCEPT !.outcome = "raised"]
               /\ UNCHANGED strategy_weights
          ELSE LET a == assignment_history[IF assignment_idx >= 0
                                           THEN assignment_idx + 1
                                           ELSE n + assignment_idx + 1]
               IN /\ feedback' = [called EXCEPT !.outcome = "updated",
                                                !.assignment = <<a>>]
                  /\ strategy_weights' = UpdatedWeights(a, wait)
  /\ UNCHANGED <<corevars, pvars, assignment_history, avars, busvars, ovars, rvars>>

NextMLBased ==
  \/ MLAssignCall
  \/ MLFeedbackCall

SpecMLBased == InitMLBased /\ [][NextMLBased]_vars

\* C27 (weights keep a positive floor): after any sequence of assignments and
\* feedbacks, with any wait time and any index, each of the four weights is
\* at least 0.1.
C27_WeightsAtLeastFloor ==
  \A k \in WeightNames : strategy_weights[k] >= WeightFloor

\* a feedback has lowered a weight that the clamp then held at the floor
C27_Witness ==
  /\ feedback.outcome = "updated"
  /\ \E k \in WeightNames :
       /\ k \in Implicated(feedback.assignment[1])
       /\ feedback.before[k] + learning_rate * Reward(feedback.wait_time) < WeightFloor
       /\ strategy_weights[k] = WeightFloor

\* C28 (rewards by threshold): a feedback with a wait under 10 s raises the
\* weights implicated in the assignment by the strong reward (0.1), one with a
\* wait under 30 s by the mild reward (0.05), and one with a wait of 30 s or
\* more leaves every weight unchanged.
C28_RewardByThreshold ==
  feedback.outcome = "updated"
    => LET a == feedback.assignment[1]
           raise == IF feedback.wait_time < 10 THEN 10
                    ELSE IF feedback.wait_time < 30 THEN 5
                    ELSE 0
       IN \A k \in WeightNames :
            strategy_weights[k] =
              IF k \in Implicated(a) THEN feedback.before[k] + raise
              ELSE feedback.before[k]

\* ------------------------------------------------------------------------
\* Direct calls of AdaptiveStrategy on a placed fleet, with the clock standing
\* still or advancing between two calls. The window holds max_history
\* timestamps (100 in the code).

\* the requests per minute that assign_elevator computes from the window w
\* are below 10 (request_rate = len / time_span * 60, or 0)
RateBelow10(w) ==
  LET n == Len(w)
      time_span == w[n] - w[1]
  IN IF n >= 2
     THEN IF time_span > 0 THEN n * 60 < 10 * time_span ELSE TRUE
     ELSE TRUE

\* recent_requests after append(time.time()) and the pop(0) beyond max_history
Recorded(w, now) ==
  LET appended == Append(w, now)
  IN IF Len(appended) > max_history THEN Tail(appended) ELSE appended

\* AdaptiveStrategy.assign_elevator: the elevator returned
AdaptiveAssign(w, request_floor, d, config) ==
  IF RateBelow10(w)
  THEN NearestCarAssign(request_floor, d, config)
  ELSE LOOKAssign(request_floor, d)

InitAdaptive ==
  /\ strategy = "adaptive"
  /\ num_elevators = MaxElevators
  /\ num_callers = 1
  /\ PlacedFleet
  /\ NewBuilding
  /\ NewThreads
  /\ Untouched

\* time passes between two calls
Elapse ==
  /\ strategy = "adaptive"
  /\ current_time + Pause <= MaxClock
  /\ current_time' = current_time + Pause
  /\ UNCHANGED <<corevars, subject, observed_wait, mlvars, avars, busvars, ovars, rvars>>

\* strategy.assign_elevator(elevators, request_floor, d, config)
AdaptiveCall ==
  /\ strategy = "adaptive"
  /\ \E request_floor \in Floors, d \in {"UP", "DOWN"} :
       LET w == Recorded(recent_requests, current_time)
       IN /\ recent_requests' = w
          /\ window_before' = recent_requests
          /\ assigned' = <<AdaptiveAssign(w, request_floor, d, ElevatorConfig)>>
          /\ request' = [floor |-> request_floor, direction |-> d, destination |-> 0]
  /\ UNCHANGED <<strategy, num_elevators, num_callers, evars, bvars,
                 elevator_destinations, clocals, mlocals, last_assigned, lvars, tvars,
                 kvars, pvars, mlvars, busvars, ovars, rvars>>

NextAdaptive ==
  \/ Elapse
  \/ AdaptiveCall

SpecAdaptive == InitAdaptive /\ [][NextAdaptive]_vars

\* the last n entries of the list w
LastEntries(w, n) ==
  IF Len(w) > n THEN SubSeq(w, Len(w) - n + 1, Len(w)) ELSE w

\* C29 (Adaptive delegates by request rate): a call appends exactly one
\* timestamp to the window, which keeps the max_history most recent entries,
\* and returns what NearestCar returns when the requests per minute over the
\* window are below 10 (fewer than two timestamps included), what LOOK
\* returns otherwise.
C29_AdaptiveDelegates ==
  (strategy = "adaptive" /\ assigned # <<>>)
    => LET n == Len(recent_requests)
           span == recent_requests[n] - recent_requests[1]
           \* n requests within span seconds: n / span * 60 per minute
           below10 == n < 2 \/ (span > 0 /\ n * 60 < 10 * span)
       IN /\ recent_requests =
               LastEntries(Append(window_before, recent_requests[n]), max_history)
          /\ assigned[1] =
               IF below10
               THEN NearestCarAssign(request.floor, request.direction, ElevatorConfig)
               ELSE LOOKAssign(request.floor, request.direction)

\* ------------------------------------------------------------------------
\* An EventBus used by two threads: one publishes, one subscribes and
\* unsubscribes. subscribe, unsubscribe and the head of publish run under
\* self._lock; the handlers are called outside it, one step each.

\* the handler callables
Handlers == 1..MaxHandlers

\* the handlers that raise an Exception when called
RaisingHandlers == {1}

\* EventBus.subscribe(event_type, handler)
Subscribe(t, h) ==
  /\ Len(subscribers[t]) < MaxSubscriptions
  /\ subscribers' = [subscribers EXCEPT ![t] = Append(@, h)]
  /\ removed' = [removed EXCEPT ![t] = @ \ {h}]
  /\ UNCHANGED <<corevars, pvars, mlvars, avars, ovars, rvars, publishing, invoked, event_history>>

\* EventBus.unsubscribe(event_type, handler): list.remove drops the first
\* occurrence; ValueError is swallowed
Unsubscribe(t, h) ==
  /\ subscribers' = [subscribers EXCEPT ![t] = RemoveFirst(@, h)]
  /\ removed' = IF h \in Range(subscribers[t])
                THEN [removed EXCEPT ![t] = @ \cup {h}]
                ELSE removed
  /\ UNCHANGED <<corevars, pvars, mlvars, avars, ovars, rvars, publishing, invoked, event_history>>

\* EventBus.publish(event_type), up to the release of the lock: the event is
\* stored and the list of handlers copied
PublishStart(t) ==
  /\ publishing.outcome # "running"
  /\ Len(event_history) < MaxPublishes
  /\ event_history' = Append(event_history, t)
  /\ publishing' = [event_type |-> t, handlers |-> subscribers[t], next |-> 1,
                     barred |-> removed[t], outcome |-> "running"]
  /\ invoked' = <<>>
  /\ UNCHANGED <<corevars, pvars, mlvars, avars, ovars, rvars, subscribers, removed>>

\* one iteration of `for handler in handlers`: the call, and the except
\* clause that prints when the handler raises
PublishInvoke ==
  /\ publishing.outcome = "running"
  /\ publishing.next <= Len(publishing.handlers)
  /\ invoked' = Append(invoked, [handler |-> publishing.handlers[publishing.next],
                                  raised |-> publishing.handlers[publishing.next]
                                               \in RaisingHandlers])
  /\ publishing' = [publishing EXCEPT !.next = @ + 1]
  /\ UNCHANGED <<corevars, pvars, mlvars, avars, ovars, rvars, subscribers, removed, event_history>>

\* the loop is over and publish returns None
PublishReturn ==
  /\ publishing.outcome = "running"
  /\ publishing.next > Len(publishing.handlers)
  /\ publishing' = [publishing EXCEPT !.outcome = "returned"]
  /\ UNCHANGED <<corevars, pvars, mlvars, avars, ovars, rvars, subscribers, removed, invoked,
                 event_history>>

InitEventBus ==
  /\ Standalone
  /\ Unexercised

NextEventBus ==
  \/ \E t \in EventTypes, h \in Handlers : Subscribe(t, h)
  \/ \E t \in EventTypes, h \in Handlers : Unsubscribe(t, h)
  \/ \E t \in EventTypes : PublishStart(t)
  \/ PublishInvoke
  \/ PublishReturn

SpecEventBus == InitEventBus /\ [][NextEventBus]_vars

\* the members of the list s, each once, in the order of their first entry
RECURSIVE EachOnce(_)
EachOnce(s) ==
  IF s = <<>> THEN <<>>
  ELSE LET front == EachOnce(SubSeq(s, 1, Len(s) - 1))
       IN IF s[Len(s)] \in Range(front) THEN front ELSE Append(front, s[Len(s)])

\* C30 (publish reaches every handler once, in order, and swallows their
\* exceptions): a publish invokes every handler subscribed to its event type
\* when it started exactly once, in subscription order, also after a handler
\* that raised; it does not end with an exception; and it invokes no handler
\* that unsubscribe had removed before it started.
C30_PublishInvokesEachOnce ==
  publishing.outcome # "none"
    => LET expected == EachOnce(publishing.handlers)
           called == [i \in 1..Len(invoked) |-> invoked[i].handler]
       IN /\ Len(called) <= Len(expected)
          /\ called = SubSeq(expected, 1, Len(called))
          /\ publishing.outcome = "returned" => called = expected
          /\ publishing.outcome # "raised"
          /\ \A i \in 1..Len(called) : called[i] \notin publishing.barred

\* ------------------------------------------------ an elevator in mid-service
\* The controller of the first elevator is run from every situation its
\* elevator can be in, and Elevator.get_next_stop and Elevator.update_direction
\* are called on it directly; every call leaves in last_call what it found
\* and what it did.

\* floors where an up-call (a down-call) can have been made
UpCallFloors == {f \in Floors : f < NumFloors}
DownCallFloors == {f \in Floors : f > 1}

\* the Person riding to floor dest, and the Person waiting at floor f to go
\* one floor up or down
Rider(dest) ==
  [uid |-> 1, id |-> 1, current_floor |-> IF dest = 1 THEN NumFloors ELSE 1,
   destination_floor |-> dest, visit_duration |-> 0, is_leaving |-> FALSE]

WaiterUp(f) ==
  [uid |-> 1 + f, id |-> 1 + f, current_floor |-> f, destination_floor |-> f + 1,
   visit_duration |-> 0, is_leaving |-> FALSE]

WaiterDown(f) ==
  [uid |-> NumFloors + f, id |-> NumFloors + f, current_floor |-> f,
   destination_floor |-> f - 1, visit_duration |-> 0, is_leaving |-> FALSE]

InitTick ==
  /\ strategy = "none"
  /\ num_elevators = MaxElevators
  /\ num_callers = 1
  /\ \E f \in Floors, d \in {"UP", "DOWN", "IDLE"}, st \in {"IDLE", "MOVING"},
        dest \in {None} \cup Floors, up \in SUBSET UpCallFloors,
        down \in SUBSET DownCallFloors, others \in BOOLEAN :
       /\ current_floor = [e \in Elevators |-> IF e = 1 THEN f ELSE 1]
       /\ direction = [e \in Elevators |-> IF e = 1 THEN d ELSE "IDLE"]
       /\ state = [e \in Elevators |-> IF e = 1 THEN st ELSE "IDLE"]
       /\ passengers = [e \in Elevators |->
                          IF e = 1 /\ dest # None THEN <<Rider(dest)>> ELSE <<>>]
       /\ destination_floors = [e \in Elevators |->
                                  IF e = 1 /\ dest # None THEN {dest} ELSE {}]
       /\ up_requests = [e \in Elevators |->
                           IF e = 1 THEN up ELSE IF others THEN UpCallFloors ELSE {}]
       /\ down_requests = [e \in Elevators |->
                             IF e = 1 THEN down ELSE IF others THEN DownCallFloors ELSE {}]
       /\ total_people_generated = IF dest # None THEN 1 ELSE 0
  /\ elevator_destinations = [e \in Elevators |-> <<>>]
  /\ \E wu \in SUBSET UpCallFloors, wd \in SUBSET DownCallFloors :
       /\ waiting_up = [f \in Floors |-> IF f \in wu THEN <<WaiterUp(f)>> ELSE <<>>]
       /\ waiting_down = [f \in Floors |-> IF f \in wd THEN <<WaiterDown(f)>> ELSE <<>>]
  /\ total_people_completed = 0
  /\ completed_journeys = <<>>
  /\ pending_returns = <<>>
  /\ active_visitors = {}
  /\ return_journeys = <<>>
  /\ cpc = [e \in Elevators |-> "step"]
  /\ passengers_leaving = [e \in Elevators |-> <<>>]
  /\ passengers_boarding = [e \in Elevators |-> <<>>]
  /\ still_waiting = [e \in Elevators |-> [up |-> FALSE, down |-> FALSE]]
  /\ mpc = [c \in Callers |-> "idle"]
  /\ person = [c \in Callers |-> NoPerson]
  /\ best_elevator = [c \in Callers |-> Unset]
  /\ gen_read = [c \in Callers |-> 0]
  /\ ret = [c \in Callers |-> "none"]
  /\ next_uid = 1
  /\ engine_is_running = TRUE
  /\ traffic_is_running = FALSE
  /\ controller_is_running = [e \in Elevators |-> e = 1]
  /\ spc = [at |-> "running", i |-> 0]
  /\ join_timed_out = {}
  /\ tpc = "generate"
  /\ returns_to_process = {}
  /\ person_id_counter = 0
  /\ completed_read = [e \in Elevators |-> 0]
  /\ Untouched

\* what a call of op on elevator e finds, and its result
Observation(op, e, result) ==
  [op |-> op, elevator |-> e, current_floor |-> current_floor[e],
   direction |-> direction[e], up_requests |-> up_requests,
   down_requests |-> down_requests, destination_floors |-> destination_floors[e],
   is_full |-> is_full(Len(passengers[e])),
   waiting |-> [up |-> Len(waiting_up[current_floor[e]]) > 0,
                down |-> Len(waiting_down[current_floor[e]]) > 0],
   result |-> result]

\* one pass of the control loop, observed: result.stopped tells whether
\* _should_stop_at_current_floor returned True, result.next_stop what
\* get_next_stop has to offer for the recomputed direction
TickStep(e) ==
  /\ process_elevator_step(e)
  /\ last_call' = Observation("process_elevator_step", e,
                     [stopped |-> cpc'[e] = "load",
                      next_stop |-> get_next_stop(e, update_direction(e))])
  /\ UNCHANGED <<svars, lvars, tvars, kvars, pvars, mlvars, avars, busvars, rvars>>

\* elevator.get_next_stop() called on its own
GetNextStopCall(e) ==
  /\ cpc[e] = "step"
  /\ last_call' = Observation("get_next_stop", e, get_next_stop(e, direction[e]))
  /\ UNCHANGED <<corevars, pvars, mlvars, avars, busvars, rvars>>

\* elevator.update_direction() called on its own
UpdateDirectionCall(e) ==
  /\ cpc[e] = "step"
  /\ direction' = [direction EXCEPT ![e] = update_direction(e)]
  /\ last_call' = Observation("update_direction", e, update_direction(e))
  /\ UNCHANGED <<strategy, num_elevators, num_callers, current_floor, state, passengers,
                 up_requests, down_requests, destination_floors, bvars,
                 elevator_destinations, clocals, mlocals, svars, lvars, tvars,
                 kvars, pvars, mlvars, avars, busvars, rvars>>

NextTick ==
  \/ \E e \in Elevators : TickStep(e)
  \/ \E e \in Elevators : CtlLoad(e)
  \/ \E e \in Elevators : CtlRemove(e)
  \/ \E e \in Elevators : CtlRecheck(e)
  \/ \E e \in Elevators : CtlFinish(e)
  \/ \E e \in Elevators : CtlCount(e)
  \/ \E e \in Elevators : GetNextStopCall(e)
  \/ \E e \in Elevators : UpdateDirectionCall(e)

SpecTick == InitTick /\ [][NextTick]_vars

\* ---- vocabulary of the claims about one tick
\* the state is the one the last observed pass of the control loop left
JustTicked ==
  /\ last_call.op = "process_elevator_step"
  /\ cpc[last_call.elevator] = IF last_call.result.stopped THEN "load" ELSE "step"

\* the floors of the last observed call that lie above / below the elevator
Above(S) == {f \in S : f > last_call.current_floor}
Below(S) == {f \in S : f < last_call.current_floor}

\* the calls and destinations the elevator of the last observed call had
CallsUp == last_call.up_requests[last_call.elevator]
CallsDown == last_call.down_requests[last_call.elevator]
AllStops == last_call.destination_floors \cup CallsUp \cup CallsDown

\* C31: when a pass of the control loop evaluates the stop decision at a
\* floor f that is not an internal destination, an up-call for f with nobody
\* waiting to go up at f is gone from the elevator afterwards, likewise a
\* down-call, the controller goes on (no error), and the request sets of
\* every other elevator are as they were
C31_StaleCallsDiscarded ==
  (JustTicked /\ last_call.current_floor \notin last_call.destination_floors) =>
    LET e == last_call.elevator
        f == last_call.current_floor
    IN /\ (f \in CallsUp /\ ~last_call.waiting.up) => f \notin up_requests[e]
       /\ (f \in CallsDown /\ ~last_call.waiting.down) => f \notin down_requests[e]
       /\ cpc[e] \in {"step", "load"}
       /\ \A j \in Elevators \ {e} :
            /\ up_requests[j] = last_call.up_requests[j]
            /\ down_requests[j] = last_call.down_requests[j]

\* a stale up-call and a stale down-call were discarded while another
\* elevator holds calls for the same floor
C31_Witness ==
  /\ JustTicked
  /\ last_call.current_floor \notin last_call.destination_floors
  /\ last_call.current_floor \in CallsUp \cap CallsDown
  /\ ~last_call.waiting.up /\ ~last_call.waiting.down
  /\ last_call.current_floor \notin up_requests[last_call.elevator]
  /\ last_call.current_floor \notin down_requests[last_call.elevator]
  /\ \E j \in Elevators \ {last_call.elevator} :
       last_call.current_floor \in up_requests[j] \cap down_requests[j]

\* C32: a pass of the control loop on a full elevator stops at the current
\* floor exactly when that floor is one of its internal destinations,
\* whoever waits there
C32_FullStopsOnlyAtDestination ==
  (last_call.op = "process_elevator_step" /\ last_call.is_full) =>
    (last_call.result.stopped <=>
       last_call.current_floor \in last_call.destination_floors)

\* a full elevator went past people waiting in both directions
C32_Witness ==
  /\ JustTicked
  /\ last_call.is_full
  /\ last_call.waiting.up /\ last_call.waiting.down
  /\ ~last_call.result.stopped
  /\ current_floor[last_call.elevator] # last_call.current_floor

\* C33: with direction Up get_next_stop returns the lowest floor above the
\* current floor among internal destinations and up-calls, with direction
\* Down the highest floor below it among internal destinations and
\* down-calls, and nothing when there is no such floor
C33_DirectionalNextStop ==
  /\ (last_call.op = "get_next_stop" /\ last_call.direction = "UP") =>
       LET c == Above(last_call.destination_floors \cup CallsUp)
       IN /\ c = {} => last_call.result = {}
          /\ c # {} => \E f \in c : /\ last_call.result = {f}
                                     /\ \A g \in c : f <= g
  /\ (last_call.op = "get_next_stop" /\ last_call.direction = "DOWN") =>
       LET c == Below(last_call.destination_floors \cup CallsDown)
       IN /\ c = {} => last_call.result = {}
          /\ c # {} => \E f \in c : /\ last_call.result = {f}
                                     /\ \A g \in c : f >= g

\* going Up with a destination and an up-call above, a down-call in between
\* and a down-call at the floor itself: the lower of the first two is returned
C33_Witness ==
  /\ last_call.op = "get_next_stop"
  /\ last_call.direction = "UP"
  /\ Above(last_call.destination_floors) # {}
  /\ Above(CallsUp) # {}
  /\ Above(last_call.destination_floors) # Above(CallsUp)
  /\ \E f \in Above(last_call.destination_floors \cup CallsUp) :
       /\ last_call.result = {f}
       /\ \E g \in Above(last_call.destination_floors \cup CallsUp) : f < g

\* C34: with direction Idle get_next_stop returns a floor of smallest
\* distance from the current floor among all internal destinations, up-calls
\* and down-calls taken together, the current floor left out
C34_IdleNextStop ==
  (last_call.op = "get_next_stop" /\ last_call.direction = "IDLE") =>
    LET c == AllStops \ {last_call.current_floor}
    IN /\ c = {} => last_call.result = {}
       /\ c # {} =>
            /\ last_call.result # {}
            /\ \A f \in last_call.result :
                 /\ f \in c
                 /\ \A g \in c : Abs(f - last_call.current_floor)
                                    <= Abs(g - last_call.current_floor)

\* C35: update_direction keeps the direction when requests remain ahead in
\* it; otherwise turns to the opposite direction when any request (an
\* up-call, a down-call or an internal destination) lies behind the
\* elevator; otherwise leaves the direction Idle
C35_DirectionRecomputed ==
  (last_call.op = "update_direction" /\ last_call.direction # "IDLE") =>
    LET up == last_call.direction = "UP"
        ahead == IF up THEN Above(last_call.destination_floors \cup CallsUp)
                       ELSE Below(last_call.destination_floors \cup CallsDown)
        behind == IF up THEN Below(AllStops) ELSE Above(AllStops)
    IN last_call.result =
         IF ahead # {} THEN last_call.direction
         ELSE IF behind # {} THEN (IF up THEN "DOWN" ELSE "UP")
         ELSE "IDLE"

\* C36: one pass of the control loop changes the floor of its elevator by
\* at most one, towards a floor get_next_stop offered, and not at all when it
\* stops to load; and every elevator is on a floor of the building
C36_OneFloorPerTick ==
  /\ \A e \in Elevators : current_floor[e] \in Floors
  /\ JustTicked =>
       LET now == current_floor[last_call.elevator]
           was == last_call.current_floor
       IN /\ Abs(now - was) <= 1
          /\ last_call.result.stopped => now = was
          /\ now # was => \E n \in last_call.result.next_stop :
                             \/ n > was /\ now = was + 1
                             \/ n < was /\ now = was - 1

\* the elevator moved one floor towards a stop two floors away
C36_Witness ==
  /\ JustTicked
  /\ ~last_call.result.stopped
  /\ \E n \in last_call.result.next_stop :
       /\ Abs(n - last_call.current_floor) > 1
       /\ Abs(current_floor[last_call.elevator] - last_call.current_floor) = 1
       /\ Abs(n - current_floor[last_call.elevator]) = 1

\* ------------------------------------------------ calls and the people behind them
\* C37: a controller takes the call for a floor and direction from its
\* elevator only at an instant when the waiting queue of that floor and
\* direction is empty, also when a submission for them comes between the
\* controller's look at the queue and the removal
C37_CallRemovedOnlyWhenQueueEmpty ==
  [][\A e \in Elevators, f \in Floors :
       /\ (f \in up_requests[e] /\ f \notin up_requests'[e]) => waiting_up'[f] = <<>>
       /\ (f \in down_requests[e] /\ f \notin down_requests'[e]) => waiting_down'[f] = <<>>]_vars

\* ------------------------------------------------ start and stop of a controller
\* start() and stop() are called, one call after the other, on the
\* controller of the first elevator, which has calls recorded and nobody
\* waiting or aboard, so that every tick cleans up or travels and none loads.
\* A thread of the controller is at "test" (the `while self.is_running` of
\* _run_control_loop), in "delay" (the time.sleep of a tick, travel delay
\* included) or "ended". spc.i is the controller the calls are made on.

InitRestart ==
  /\ strategy = "none"
  /\ num_elevators = MaxElevators
  /\ num_callers = 1
  /\ \E f \in Floors, up \in SUBSET UpCallFloors, down \in SUBSET DownCallFloors :
       /\ current_floor = [e \in Elevators |-> IF e = 1 THEN f ELSE 1]
       /\ up_requests = [e \in Elevators |-> IF e = 1 THEN up ELSE {}]
       /\ down_requests = [e \in Elevators |-> IF e = 1 THEN down ELSE {}]
  /\ direction = [e \in Elevators |-> "IDLE"]
  /\ state = [e \in Elevators |-> "IDLE"]
  /\ passengers = [e \in Elevators |-> <<>>]
  /\ destination_floors = [e \in Elevators |-> {}]
  /\ elevator_destinations = [e \in Elevators |-> <<>>]
  /\ NewBuilding
  /\ cpc = [e \in Elevators |-> "step"]
  /\ passengers_leaving = [e \in Elevators |-> <<>>]
  /\ passengers_boarding = [e \in Elevators |-> <<>>]
  /\ still_waiting = [e \in Elevators |-> [up |-> FALSE, down |-> FALSE]]
  /\ mpc = [c \in Callers |-> "idle"]
  /\ person = [c \in Callers |-> NoPerson]
  /\ best_elevator = [c \in Callers |-> Unset]
  /\ gen_read = [c \in Callers |-> 0]
  /\ ret = [c \in Callers |-> "none"]
  /\ next_uid = 1
  /\ engine_is_running = FALSE
  /\ traffic_is_running = FALSE
  /\ controller_is_running = [e \in Elevators |-> FALSE]
  /\ spc = [at |-> "idle", i |-> 1]
  /\ join_timed_out = {}
  /\ tpc = "generate"
  /\ returns_to_process = {}
  /\ person_id_counter = 0
  /\ completed_read = [e \in Elevators |-> 0]
  /\ Untouched

\* what the actions of this scenario leave alone besides the elevators, the
\* flags and the threads
RestartFrame ==
  <<strategy, num_elevators, num_callers, bvars, elevator_destinations, mlocals, svars,
    engine_is_running, traffic_is_running, tvars, kvars, pvars, mlvars, avars, busvars,
    ovars>>

\* ElevatorController.start: `if not self.is_running:` set the flag, create
\* and start a thread (self.thread now names the new one)
StartCall ==
  /\ spc.at = "idle"
  /\ Len(control_loops[spc.i]) < MaxStarts
  /\ IF ~controller_is_running[spc.i]
     THEN /\ controller_is_running' = [controller_is_running EXCEPT ![spc.i] = TRUE]
          /\ control_loops' = [control_loops EXCEPT ![spc.i] = Append(@, "test")]
     ELSE UNCHANGED <<controller_is_running, control_loops>>
  /\ UNCHANGED <<RestartFrame, evars, clocals, spc, join_timed_out>>

\* ElevatorController.stop: `self.is_running = False`, then on to the join
\* when self.thread is set
StopCall ==
  /\ spc.at = "idle"
  /\ controller_is_running' = [controller_is_running EXCEPT ![spc.i] = FALSE]
  /\ spc' = [spc EXCEPT !.at = IF control_loops[spc.i] # <<>> THEN "join" ELSE "idle"]
  /\ UNCHANGED <<RestartFrame, evars, clocals, control_loops, join_timed_out>>

\* ElevatorController.stop: `self.thread.join(timeout=1.0)` returns, because
\* the thread has ended or because the timeout expired while the thread was
\* in a delay; stop() returns
JoinCall ==
  /\ spc.at = "join"
  /\ LET thread == control_loops[spc.i][Len(control_loops[spc.i])]
     IN /\ thread \in {"ended", "delay"}
        /\ join_timed_out' = IF thread = "ended" THEN join_timed_out
                             ELSE join_timed_out \cup {spc.i}
  /\ spc' = [spc EXCEPT !.at = "idle"]
  /\ UNCHANGED <<RestartFrame, evars, clocals, controller_is_running, control_loops>>

\* _run_control_loop of thread i: `while self.is_running` holds, one
\* _process_elevator_step, then the thread sleeps
LoopTick(i) ==
  /\ i \in 1..Len(control_loops[spc.i])
  /\ control_loops[spc.i][i] = "test"
  /\ controller_is_running[spc.i]
  /\ process_elevator_step(spc.i)
  /\ control_loops' = [control_loops EXCEPT ![spc.i][i] = "delay"]
  /\ UNCHANGED <<svars, lvars, tvars, kvars, pvars, mlvars, avars, busvars, ovars>>

\* _run_control_loop of thread i: the sleep is over
LoopWake(i) ==
  /\ i \in 1..Len(control_loops[spc.i])
  /\ control_loops[spc.i][i] = "delay"
  /\ control_loops' = [control_loops EXCEPT ![spc.i][i] = "test"]
  /\ UNCHANGED <<corevars, pvars, mlvars, avars, busvars, ovars>>

\* _run_control_loop of thread i: `while self.is_running` fails, the thread ends
LoopExit(i) ==
  /\ i \in 1..Len(control_loops[spc.i])
  /\ control_loops[spc.i][i] = "test"
  /\ ~controller_is_running[spc.i]
  /\ control_loops' = [control_loops EXCEPT ![spc.i][i] = "ended"]
  /\ UNCHANGED <<corevars, pvars, mlvars, avars, busvars, ovars>>

NextRestart ==
  \/ StartCall
  \/ StopCall
  \/ JoinCall
  \/ \E i \in 1..MaxStarts : LoopTick(i)
  \/ \E i \in 1..MaxStarts : LoopWake(i)
  \/ \E i \in 1..MaxStarts : LoopExit(i)

SpecRestart == InitRestart /\ [][NextRestart]_vars

\* C38: whatever start and stop calls are made on a controller, when one of
\* its threads executes a tick every other thread it ever started has ended
C38_SingleControlLoop ==
  [][\A i \in 1..Len(control_loops[spc.i]) :
       (control_loops[spc.i][i] = "test" /\ control_loops'[spc.i][i] = "delay") =>
         \A j \in 1..Len(control_loops[spc.i]) \ {i} :
           control_loops[spc.i][j] = "ended"]_vars

\* ------------------------------------------------ the counters and the ids
\* C39: in every reachable state the completed counter is at most the
\* generated counter: every Person counted as completed, return trips
\* included, was counted as generated before
C39_CompletedAtMostGenerated == total_people_completed <= total_people_generated

\* C40: any two Persons that ever entered the Building (waiting, riding, being
\* let out or completed) have different ids, whoever created them
C40_PersonIdsDistinct ==
  \A p \in Everyone, q \in Everyone : p.uid # q.uid => p.id # q.id

====
